---- MODULE Spec2Model ----
(***************************************************************************)
(* ISO 19794 container codec (python-iso19794): the frame navigator of     *)
(* FIRImageFile / FACImageFile and the single- and multi-frame writers.    *)
(*                                                                         *)
(* Spec   : the navigator (open, seek, tell, caller edits of the header).  *)
(* SpecD  : the navigator over frames of several modes and sizes, damaged  *)
(*          payloads and truncated streams.                                *)
(* SpecW  : the writers (save, save with save_all) and the decoding of     *)
(*          what they wrote.                                               *)
(* SpecM  : the writers given images opened from containers.               *)
(* SpecR  : a writer followed by Image.open() of the file written, or of a *)
(*          file that differs from it in one byte.                         *)
(***************************************************************************)
EXTENDS Integers, Sequences, FiniteSets, TLC

VARIABLES
    family,      \* "FIR" or "FAC" (FAC: a version 010 container)
    stream,      \* the frames stored in the byte stream, in file order
    n_frames,    \* self.n_frames: the frame count declared by the general header
    frame,       \* self.__frame
    next,        \* self.__next
    frame_pos,   \* self._frame_pos
    rheaders,    \* self._rheaders
    header,      \* self.header
    im_mode,     \* self.mode
    im_size,     \* self.size
    shared,      \* self.header is the very object stored in _rheaders[__frame]
    err,         \* exception raised by the last operation, "none" if it returned
    reads,       \* offsets at which read_header() ran during the last operation
    lastOp,      \* the last operation: "open", "seek", "replace" or "mutate"
    edits,       \* history: number of header values the caller has assigned
    callerHdr,   \* history: per index, the last value the caller gave the header there
    failed,      \* history: some in-range move has raised
    wfam,        \* writer: "FIR" or "FAC", the format given to save()
    wversion,    \* writer: the version the face-family writer is asked for
    images,      \* writer: [im] + append_images, plain single-frame images
    out,         \* writer: the bytes fp has received
    frames,      \* writer: frames_buffers (fr_data for the single-frame writer)
    werr,        \* writer: exception raised by save(), "none" if it returned
    wdetail,     \* writer: the keys the message of the exception names
    wop,         \* writer: "ready", then "save" or "save_all"
    file,        \* reader: the bytes given to Image.open()
    opened,      \* reader: what Image.open() made of them, or its exception
    rewritten    \* reader: what save_all made of the image opened

navVars == <<family, stream, n_frames, frame, next, frame_pos, rheaders, header,
             im_mode, im_size, shared, err, reads, lastOp, edits, callerHdr, failed>>

writerVars == <<wfam, wversion, images, out, frames, werr, wdetail, wop>>

readerVars == <<file, opened, rewritten>>

vars == <<navVars, writerVars, readerVars>>

----------------------------------------------------------------------------
(* Bounds of the model *)

MaxFrames == 3
MaxEdits == 2
MaxImages == 2
MaxCerts == 2
MaxLandmarks == 2
MaxAppended == 1
MaxQualities == 2
MaxFlags == 2

(* Program constants *)

FIRGeneralHeaderSize == 16
FACGeneralHeaderSize == 14
FIRMinFrame == 41
FACMinFrame == 32

----------------------------------------------------------------------------
(* The byte stream, seen as the navigator sees it: frames laid back to back *)
(* after the general header, each starting with its own length field.       *)

Families == {"FIR", "FAC"}

NoHeader == [src |-> "none", id |-> 0, length |-> 0]

\* The smallest frame of the family: its header and an empty payload.
MinFrame(fam) == IF fam = "FIR" THEN FIRMinFrame ELSE FACMinFrame

\* A stored frame: the length its length field gives, the pixel mode its
\* header declares ("L" for a bit depth of 8 or the grey colour space, "RGB"
\* for a bit depth of 24 or a colour space of three channels), the size its
\* header declares, and whether _seek can set a tile for its payload ("bad":
\* a JPEG 2000 payload that begins with neither signature)
StoredAs(length, mode, size, tile) ==
    [length |-> length, mode |-> mode, size |-> size, tile |-> tile]

\* The stored containers: 1..MaxFrames frames whose payloads are empty or one
\* byte long, in turn, starting with either.
Streams(fam) ==
    {[k \in 1..n |-> StoredAs(MinFrame(fam) + ((k + p) % 2), "L", <<1, 1>>, "ok")] :
        n \in 1..MaxFrames, p \in 0..1}

FirstOffset(fam) == IF fam = "FIR" THEN FIRGeneralHeaderSize ELSE FACGeneralHeaderSize

RECURSIVE SumLengths(_, _)
SumLengths(st, k) == IF k = 0 THEN 0 ELSE SumLengths(st, k - 1) + st[k].length

\* Offset in the file of the k-th frame (k counted from 0); k = Len(st) is the
\* end of the file.
FrameOffset(fam, st, k) == FirstOffset(fam) + SumLengths(st, k)

\* read_header() with the stream positioned at off: the header stored there.
\* Off a frame boundary, or at the end of the file, struct.unpack raises.
read_header(fam, st, off) ==
    IF \E k \in 0..(Len(st) - 1) : FrameOffset(fam, st, k) = off
    THEN LET k == CHOOSE j \in 0..(Len(st) - 1) : FrameOffset(fam, st, j) = off
         IN  [ok |-> TRUE,
              hdr |-> [src |-> "stream", id |-> k, length |-> st[k + 1].length]]
    ELSE [ok |-> FALSE, hdr |-> NoHeader]

----------------------------------------------------------------------------
(* The navigator.  A navigator state is the record of the object's fields. *)

\* "save rheader in case it has been modified"
SaveHeaderDropped(s) == s

\* the header saved in the first entry of the cache, whatever the position
SaveHeaderAtFirst(s) ==
    IF s.frame >= 0 /\ s.header # NoHeader
    THEN [s EXCEPT !.rheaders[1] = s.header, !.shared = TRUE]
    ELSE s

SaveHeader(s) ==
    IF s.frame >= 0 /\ s.header # NoHeader
    THEN IF s.frame + 1 > Len(s.rheaders)
         THEN [s EXCEPT !.err = "IndexError"]
         ELSE [s EXCEPT !.rheaders[s.frame + 1] = s.header, !.shared = TRUE]
    ELSE s

\* while len(self._frame_pos) <= frame: ...
RECURSIVE SeekLoop(_, _, _, _)
SeekLoop(fam, st, s, target) ==
    IF Len(s.frame_pos) <= target
    THEN IF s.next = 0
         THEN [s EXCEPT !.err = "EOFError"]
         ELSE LET pos == Append(s.frame_pos, s.next)
                  r   == read_header(fam, st, s.next)
                  rd  == Append(s.reads, s.next)
              IN  IF ~r.ok
                  THEN [s EXCEPT !.frame_pos = pos, !.reads = rd, !.err = "struct.error"]
                  ELSE LET rh == Append(s.rheaders, r.hdr)
                       IN  IF target + 1 > Len(pos)
                           THEN \* self._frame_pos[frame] is not there yet
                                [s EXCEPT !.frame_pos = pos, !.rheaders = rh,
                                          !.reads = rd, !.err = "IndexError"]
                           ELSE SeekLoop(fam, st,
                                    [s EXCEPT !.frame_pos = pos, !.rheaders = rh,
                                              !.reads = rd,
                                              !.next = pos[target + 1] + r.hdr.length,
                                              !.frame = s.frame + 1],
                                    target)
    ELSE s

\* FIR: "if ns.bit_depth==8: self.mode = 'L'", and no assignment otherwise;
\* FAC: "self.mode = ns.mode"
SeekMode(fam, declared, previous) ==
    IF fam = "FIR" THEN (IF declared = "L" THEN "L" ELSE previous) ELSE declared

\* The tail of _seek: position on the target, expose its cached header, set
\* mode and size from the header just read and select the decoder.
SeekFinish(fam, st, s, target) ==
    LET off == s.frame_pos[target + 1]
        r   == read_header(fam, st, off)
        rd  == Append(s.reads, off)
    IN  IF ~r.ok
        THEN [s EXCEPT !.reads = rd, !.err = "struct.error"]
        ELSE IF target + 1 > Len(s.rheaders)
        THEN [s EXCEPT !.reads = rd, !.err = "IndexError"]
        ELSE LET h == s.rheaders[target + 1]
                 ns == st[r.hdr.id + 1]
                 moved == [s EXCEPT !.reads = rd,
                                    !.header = h,
                                    !.shared = TRUE,
                                    \* FIR chains on the exposed header's length, FAC
                                    \* on the length just read from the stream
                                    !.next = off + (IF fam = "FIR" THEN h.length
                                                    ELSE r.hdr.length),
                                    !.frame = target,
                                    !.mode = SeekMode(fam, ns.mode, s.mode),
                                    !.size = ns.size]
             IN  \* "Select decoder": raise SyntaxError("not a JPEG 2000 image")
                 IF ns.tile = "ok" THEN moved ELSE [moved EXCEPT !.err = "SyntaxError"]

_seek(fam, st, s, target) ==
    LET s1 == SaveHeader(s)
        s2 == IF s1.err # "none" THEN s1 ELSE SeekLoop(fam, st, s1, target)
    IN  IF s2.err # "none" THEN s2 ELSE SeekFinish(fam, st, s2, target)

\* _seek_check: raises outside [0, n_frames), else tells whether to move.
SeekCheckOffByOne(n, i) == i < 0 \/ i > n

OutOfSequence(n, i) == i < 0 \/ i >= n

\* seek() saving the exposed header before the range check
seekSavesFirst(fam, st, n, s, i) ==
    LET s0 == SaveHeader([s EXCEPT !.err = "none", !.reads = <<>>])
    IN  IF OutOfSequence(n, i) THEN [s0 EXCEPT !.err = "EOFError"]
        ELSE IF s0.frame = i THEN s0
        ELSE _seek(fam, st, s0, i)

\* seek(frame)
seek(fam, st, n, s, i) ==
    LET s0 == [s EXCEPT !.err = "none", !.reads = <<>>]
    IN  IF OutOfSequence(n, i) THEN [s0 EXCEPT !.err = "EOFError"]
        ELSE IF s0.frame = i THEN s0
        ELSE _seek(fam, st, s0, i)

\* the mode of an image object no frame has set the mode of
NoMode == ""

\* _open, after the general header has been accepted: "setup frame pointers"
\* and the eager _seek(0).
Opened(fam, st) ==
    _seek(fam, st,
          [frame |-> -1, next |-> FirstOffset(fam), frame_pos |-> <<>>,
           rheaders |-> <<>>, header |-> NoHeader, mode |-> NoMode, size |-> <<0, 0>>,
           shared |-> FALSE, err |-> "none", reads |-> <<>>],
          0)

Nav == [frame |-> frame, next |-> next, frame_pos |-> frame_pos,
        rheaders |-> rheaders, header |-> header, mode |-> im_mode, size |-> im_size,
        shared |-> shared,
        err |-> err, reads |-> reads]

SetNav(s) ==
    /\ frame' = s.frame
    /\ next' = s.next
    /\ frame_pos' = s.frame_pos
    /\ rheaders' = s.rheaders
    /\ header' = s.header
    /\ im_mode' = s.mode
    /\ im_size' = s.size
    /\ shared' = s.shared
    /\ err' = s.err
    /\ reads' = s.reads

----------------------------------------------------------------------------
(* Specification of the navigator *)

Indexes == 0..(MaxFrames - 1)

\* the arguments given to seek(): every index of the largest container, one
\* below and one above
SeekArgs == -1..MaxFrames

\* no writer at work
\* no file has been given to Image.open()
NotOpened == [err |-> "closed"]

\* the image opened has not been given to a writer
NotRewritten == [err |-> "idle"]

ReaderIdle ==
    /\ file = <<>>
    /\ opened = NotOpened
    /\ rewritten = NotRewritten

WriterIdle ==
    /\ wfam = "FIR"
    /\ wversion = "010"
    /\ images = <<>>
    /\ out = <<>>
    /\ frames = <<>>
    /\ werr = "none"
    /\ wdetail = {}
    /\ wop = "idle"
    /\ ReaderIdle

NavInit ==
    /\ family \in Families
    /\ stream \in Streams(family)
    \* the count the general header declares; every declared frame is stored
    /\ n_frames \in 0..Len(stream)
    /\ LET s == Opened(family, stream)
       IN  /\ s.err = "none"
           /\ frame = s.frame
           /\ next = s.next
           /\ frame_pos = s.frame_pos
           /\ rheaders = s.rheaders
           /\ header = s.header
           /\ im_mode = s.mode
           /\ im_size = s.size
           /\ shared = s.shared
           /\ err = s.err
           /\ reads = s.reads
    /\ lastOp = "open"
    /\ edits = 0
    /\ callerHdr = [k \in Indexes |-> NoHeader]
    /\ failed = FALSE
    /\ WriterIdle

\* image.seek(i)
Seek(i) ==
    /\ LET s == seek(family, stream, n_frames, Nav, i)
       IN  /\ SetNav(s)
           /\ failed' = (failed \/ (~OutOfSequence(n_frames, i) /\ s.err # "none"))
    /\ lastOp' = "seek"
    /\ UNCHANGED <<family, stream, n_frames, edits, callerHdr>>
    /\ UNCHANGED writerVars
    /\ UNCHANGED readerVars

\* The values a caller may assign: a fresh header that keeps the length it
\* found, or one built with length=0 as the documentation builds headers.
CallerHeaders == {[src |-> "caller", id |-> edits + 1, length |-> l] : l \in {header.length, 0}}

\* image.header = h
ReplaceHeader(h) ==
    /\ edits < MaxEdits
    /\ header' = h
    /\ shared' = FALSE
    /\ edits' = edits + 1
    /\ callerHdr' = [callerHdr EXCEPT ![frame] = h]
    /\ err' = "none"
    /\ reads' = <<>>
    /\ lastOp' = "replace"
    /\ UNCHANGED <<family, stream, n_frames, frame, next, frame_pos, rheaders, failed>>
    /\ UNCHANGED <<im_mode, im_size>>
    /\ UNCHANGED writerVars
    /\ UNCHANGED readerVars

\* image.header[key] = value: the face-family header is a dict, changed in
\* place, so the object cached in _rheaders changes with it while it is shared.
MutateHeader(h) ==
    /\ family = "FAC"
    /\ edits < MaxEdits
    /\ header' = h
    /\ rheaders' = IF shared THEN [rheaders EXCEPT ![frame + 1] = h] ELSE rheaders
    /\ edits' = edits + 1
    /\ callerHdr' = [callerHdr EXCEPT ![frame] = h]
    /\ err' = "none"
    /\ reads' = <<>>
    /\ lastOp' = "mutate"
    /\ UNCHANGED <<family, stream, n_frames, frame, next, frame_pos, shared, failed>>
    /\ UNCHANGED <<im_mode, im_size>>
    /\ UNCHANGED writerVars
    /\ UNCHANGED readerVars

Next ==
    \/ \E i \in SeekArgs : Seek(i)
    \/ \E h \in CallerHeaders : ReplaceHeader(h)
    \/ \E h \in CallerHeaders : MutateHeader(h)

Spec == NavInit /\ [][Next]_vars

----------------------------------------------------------------------------
(* Specification of the navigator over frames that differ in mode and size, *)
(* over a payload no decoder is found for, and over a truncated stream      *)

\* The frames stored: a grey frame, a colour frame of another size, and a
\* frame of a third size whose JPEG 2000 payload has no known signature
FrameKinds(fam) ==
    {StoredAs(MinFrame(fam), "L", <<1, 1>>, "ok"),
     StoredAs(MinFrame(fam) + 1, "RGB", <<2, 1>>, "ok"),
     StoredAs(MinFrame(fam) + 1, "L", <<1, 2>>, "bad")}

\* The containers of 1..MaxFrames such frames that open: _open ends with
\* _seek(0), which needs a decoder for the first frame and, in the finger
\* family, sets a mode for a bit depth of 8 only
MixedStreams(fam) ==
    {st \in UNION {[1..n -> FrameKinds(fam)] : n \in 1..MaxFrames} :
        st[1].tile = "ok" /\ (fam = "FIR" => st[1].mode = "L")}

\* The general header declares the frames stored, or one more: the stream
\* ends where the last declared frame should begin.
DInit ==
    /\ family \in Families
    /\ stream \in MixedStreams(family)
    /\ n_frames \in {Len(stream), Len(stream) + 1}
    /\ LET s == Opened(family, stream)
       IN  /\ s.err = "none"
           /\ frame = s.frame
           /\ next = s.next
           /\ frame_pos = s.frame_pos
           /\ rheaders = s.rheaders
           /\ header = s.header
           /\ im_mode = s.mode
           /\ im_size = s.size
           /\ shared = s.shared
           /\ err = s.err
           /\ reads = s.reads
    /\ lastOp = "open"
    /\ edits = 0
    /\ callerHdr = [k \in Indexes |-> NoHeader]
    /\ failed = FALSE
    /\ WriterIdle

DNext == \E i \in SeekArgs : Seek(i)

SpecD == DInit /\ [][DNext]_vars

----------------------------------------------------------------------------
(* Bytes: struct.pack / struct.unpack, big endian *)

Pow256(w) == IF w = 1 THEN 256 ELSE IF w = 2 THEN 65536 ELSE 16777216

\* struct.pack of an unsigned integer on w bytes (formats B, H, I)
RECURSIVE BE(_, _)
BE(n, w) == IF w = 0 THEN <<>> ELSE Append(BE(n \div 256, w - 1), n % 256)

\* struct.pack raises struct.error for a value outside the format's range
\* (every integer of this model is below 2^31, so format I only refuses
\* negative values)
Fits(n, w) == 0 <= n /\ (w >= 4 \/ n < Pow256(w))

\* struct.pack of a signed byte (format b)
SByte(n) == <<(n + 256) % 256>>

\* struct.pack of a bytes value with format <n>s: cut or zero-padded to n bytes
PadTo(b, n) == [k \in 1..n |-> IF k <= Len(b) THEN b[k] ELSE 0]

\* the w bytes found at offset off (counted from 0)
Sub(b, off, w) == SubSeq(b, off + 1, off + w)

\* b[off .. off+w-1], as far as b goes: fp.read(w) at off
ReadAt(b, off, w) ==
    IF off >= Len(b) THEN <<>>
    ELSE SubSeq(b, off + 1, IF off + w > Len(b) THEN Len(b) ELSE off + w)

\* struct.unpack of an unsigned integer of w bytes at offset off
RECURSIVE UInt(_, _, _)
UInt(b, off, w) == IF w = 0 THEN 0 ELSE UInt(b, off, w - 1) * 256 + b[off + w]

\* The offsets of the n frames found in b from off on, each frame starting
\* where the length field of the one before says it ends
RECURSIVE FrameStarts(_, _, _)
FrameStarts(b, off, n) ==
    IF n = 0 \/ off + 4 > Len(b) THEN <<>>
    ELSE <<off>> \o FrameStarts(b, off + UInt(b, off, 4), n - 1)

RECURSIVE Concat(_)
Concat(ss) == IF ss = <<>> THEN <<>> ELSE Head(ss) \o Concat(Tail(ss))

RECURSIVE SumLen(_)
SumLen(ss) == IF ss = <<>> THEN 0 ELSE Len(Head(ss)) + SumLen(Tail(ss))

\* b"FIR\x00", b"FAC\x00", b"020\x00", b"010\x00"
MagicFIR == <<70, 73, 82, 0>>
MagicFAC == <<70, 65, 67, 0>>
Version020 == <<48, 50, 48, 0>>
Version010 == <<48, 49, 48, 0>>
Version030 == <<48, 51, 48, 0>>

----------------------------------------------------------------------------
(* Enumeration tables of the finger family *)

POSITION ==
    ("Unknown" :> 0) @@ ("Right thumb" :> 1) @@ ("Right index finger" :> 2) @@
    ("Right middle finger" :> 3) @@ ("Right ring finger" :> 4) @@
    ("Right little finger" :> 5) @@ ("Left thumb" :> 6) @@ ("Left index finger" :> 7) @@
    ("Left middle finger" :> 8) @@ ("Left ring finger" :> 9) @@
    ("Left little finger" :> 10) @@ ("Plain right four fingers" :> 13) @@
    ("Plain left four fingers" :> 14) @@ ("Plain thumbs (2)" :> 15) @@
    ("Right index and middle" :> 40) @@ ("Right middle and ring" :> 41) @@
    ("Right ring and little" :> 42) @@ ("Left index and middle" :> 43) @@
    ("Left middle and ring" :> 44) @@ ("Left ring and little" :> 45) @@
    ("Right index and Left index" :> 46) @@ ("Right index and middle and ring" :> 47) @@
    ("Right middle and ring and little" :> 48) @@ ("Left index and middle and ring" :> 49) @@
    ("Left middle and ring and little" :> 50) @@
    ("Unknown palm" :> 20) @@ ("Right full palm" :> 21) @@ ("Right writer's palm" :> 22) @@
    ("Left full palm" :> 23) @@ ("Left writer's palm" :> 24) @@ ("Right lower palm" :> 25) @@
    ("Right upper palm" :> 26) @@ ("Left lower palm" :> 27) @@ ("Left upper palm" :> 28) @@
    ("Right other" :> 29) @@ ("Left other" :> 30) @@ ("Right interdigital" :> 31) @@
    ("Right thenar" :> 32) @@ ("Right hypothenar" :> 33) @@ ("Left interdigital" :> 34) @@
    ("Left thenar" :> 35) @@ ("Left hypothenar" :> 36)

COMPRESSION ==
    ("RAW" :> 0) @@ ("RAW_PACKED" :> 1) @@ ("WSQ" :> 2) @@ ("JPEG" :> 3) @@
    ("JPEG2000_LOSSY" :> 4) @@ ("JPEG2000_LOSSLESS" :> 5) @@ ("PNG" :> 6)

IMPRESSION ==
    ("Live-scan plain" :> 0) @@ ("Live-scan rolled" :> 1) @@ ("Nonlive-scan plain" :> 2) @@
    ("Nonlive-scan rolled" :> 3) @@ ("Latent impression" :> 4) @@ ("Latent tracing" :> 5) @@
    ("Latent photo" :> 6) @@ ("Latent lift" :> 7) @@ ("Live-scan swipe" :> 8) @@
    ("Live-scan vertical roll" :> 9) @@ ("Live-scan palm" :> 10) @@
    ("Nonlive-scan palm" :> 11) @@ ("Latent palm impression" :> 12) @@
    ("Latent palm tracing" :> 13) @@ ("Latent palm photo" :> 14) @@
    ("Latent palm lift" :> 15) @@ ("Live-scan optical contactless plain" :> 24) @@
    ("Other" :> 28) @@ ("Unknown" :> 29)

\* a table whose two names share a code
UNITShared == ("PPI" :> 1) @@ ("PPCM" :> 1)

UNIT == ("PPI" :> 1) @@ ("PPCM" :> 2)

\* A field that holds either a symbolic name or a numeric code
Name(s) == [t |-> "str", s |-> s, n |-> 0]
Code(n) == [t |-> "int", s |-> "", n |-> n]

\* "x if type(x) is int else TABLE[x]"; a name missing from the table is a KeyError
Known(table, x) == x.t = "int" \/ x.s \in DOMAIN table
ToWire(table, x) == IF x.t = "int" THEN x.n ELSE table[x.s]

\* "{v: k for k, v in TABLE.items()}[code]"; a code missing from the table is a KeyError
HasCode(table, c) == \E k \in DOMAIN table : table[k] = c
FromWire(table, c) == CHOOSE k \in DOMAIN table : table[k] = c

----------------------------------------------------------------------------
(* Finger family: the frame encoder and the two writers (FIR.py) *)

\* An image handed to the writer is [header, mode, size, image_data]:
\* image_data stands for the bytes the pixel codec returns for the image.

Bool(x) == IF x THEN 1 ELSE 0

\* struct.pack(">HBBBBBH", year, month, day, hour, minute, second, ms)
PackDatetime(dt) ==
    BE(dt.year, 2) \o BE(dt.month, 1) \o BE(dt.day, 1) \o BE(dt.hour, 1)
        \o BE(dt.minute, 1) \o BE(dt.second, 1) \o BE(dt.microsecond \div 1000, 2)

\* struct.pack(">B2s2s", q.score, q.algo_vendor_id, q.algo_id)
PackQuality(q) == BE(q.score, 1) \o PadTo(q.algo_vendor_id, 2) \o PadTo(q.algo_id, 2)

\* struct.pack(">2s1s", c.authority_id, c.scheme_id)
PackCertificationWide(c) == PadTo(c.authority_id, 2) \o PadTo(c.scheme_id, 2)

PackCertification(c) == PadTo(c.authority_id, 2) \o PadTo(c.scheme_id, 1)

\* for q in ns.quality_records: rheader += ...
PackQualities(recs) == Concat([k \in 1..Len(recs) |-> PackQuality(recs[k])])

\* for c in ns.certification_records: rheader += ...
PackCertifications(recs) == Concat([k \in 1..Len(recs) |-> PackCertification(recs[k])])

\* The compression dispatch of _save_frame: "none" when the pixel codec is
\* run, else the exception raised.
FIRCompressionError(algo) ==
    IF algo.t = "int" THEN "TypeError"            \* "Unknown compression algo " + int
    ELSE IF algo.s \in {"RAW", "JPEG", "JPEG2000_LOSSY", "JPEG2000_LOSSLESS"} THEN "none"
    ELSE IF algo.s \in {"RAW_PACKED", "WSQ"} THEN "TypeError"   \* im.encoderconfig  ()
    ELSE "SyntaxError"

FIRBitDepth(im) ==
    IF im.header.image_compression_algo = Name("RAW") THEN 8
    ELSE IF im.mode = "L" THEN 8 ELSE 24

\* The certification block of a frame, written when the container's flag is set
CertBlockPerFrame(ns, cert_flag) ==
    IF Len(ns.certification_records) > 0
    THEN BE(Len(ns.certification_records), 1)
            \o PackCertifications(ns.certification_records)
    ELSE <<>>

CertBlock(ns, cert_flag) ==
    IF cert_flag
    THEN BE(Len(ns.certification_records), 1)
            \o PackCertifications(ns.certification_records)
    ELSE <<>>

\* rheader of _save_frame, from the capture date to the image data length
FIRRepresentationBytes(im, cert_flag) ==
    LET ns == im.header
    IN  PackDatetime(ns.capture_datetime)
        \o PadTo(ns.capture_device_technology_id, 1)
        \o PadTo(ns.capture_device_vendor_id, 2)
        \o PadTo(ns.capture_device_type_id, 2)
        \o BE(Len(ns.quality_records), 1)
        \o PackQualities(ns.quality_records)
        \o CertBlock(ns, cert_flag)
        \o BE(ToWire(POSITION, ns.position), 1)
        \o BE(ns.number, 1)
        \o BE(ToWire(UNIT, ns.scale_units), 1)
        \o BE(ns.horizontal_scan_sampling_rate, 2)
        \o BE(ns.vertical_scan_sampling_rate, 2)
        \o BE(ns.horizontal_image_sampling_rate, 2)
        \o BE(ns.vertical_image_sampling_rate, 2)
        \o BE(FIRBitDepth(im), 1)
        \o BE(ToWire(COMPRESSION, ns.image_compression_algo), 1)
        \o BE(ToWire(IMPRESSION, ns.impression_type), 1)
        \o BE(im.size[1], 2)
        \o BE(im.size[2], 2)
        \o BE(Len(im.image_data), 4)

\* The exception struct.pack or a table lookup raises while the header is
\* packed, "none" when it is packed.
FIRPackError(im) ==
    LET ns == im.header
    IN  IF ~(Fits(Len(ns.quality_records), 1) /\ Fits(Len(ns.certification_records), 1))
        THEN "struct.error"
        ELSE IF ~Known(POSITION, ns.position) THEN "KeyError"
        ELSE IF ~Known(UNIT, ns.scale_units) THEN "KeyError"
        ELSE IF ~Known(COMPRESSION, ns.image_compression_algo) THEN "KeyError"
        ELSE IF ~Known(IMPRESSION, ns.impression_type) THEN "KeyError"
        ELSE IF ~(Fits(ToWire(POSITION, ns.position), 1) /\ Fits(ns.number, 1)
                  /\ Fits(ToWire(UNIT, ns.scale_units), 1)
                  /\ Fits(ToWire(COMPRESSION, ns.image_compression_algo), 1)
                  /\ Fits(ToWire(IMPRESSION, ns.impression_type), 1)
                  /\ Fits(im.size[1], 2) /\ Fits(im.size[2], 2))
        THEN "struct.error"
        ELSE "none"

\* The length field of a frame: "4+len(rheader)+len(image_data)"
FrameLengthNoPrefix(rheader, image_data) == Len(rheader) + Len(image_data)

FrameLength(rheader, image_data) == 4 + Len(rheader) + Len(image_data)

\* _save_frame(im, fp, cert_flag): the bytes written to fp, or the exception
FIR_save_frame(im, cert_flag) ==
    LET e1 == FIRCompressionError(im.header.image_compression_algo)
        e2 == IF e1 # "none" THEN e1 ELSE FIRPackError(im)
    IN  IF e2 # "none" THEN [err |-> e2, bytes |-> <<>>]
        ELSE LET rheader == FIRRepresentationBytes(im, cert_flag)
             IN  [err |-> "none",
                  bytes |-> BE(FrameLength(rheader, im.image_data), 4)
                              \o rheader \o im.image_data]

\* struct.pack(">4sIH?B", b"020\x00", length, nb_repr, cert_flag, nb_pos) after the magic
FIRGeneralHeader(length, nb_repr, cert_flag, nb_pos) ==
    MagicFIR \o Version020 \o BE(length, 4) \o BE(nb_repr, 2)
        \o BE(Bool(cert_flag), 1) \o BE(nb_pos, 1)

\* _save(im, fp, filename): [err, out, frames]; out is what fp has received
FIR_save(im) ==
    LET cert_flag == Len(im.header.certification_records) > 0
        fr == FIR_save_frame(im, cert_flag)
    IN  IF fr.err # "none" THEN [err |-> fr.err, out |-> <<>>, frames |-> <<>>]
        ELSE [err |-> "none",
              out |-> FIRGeneralHeader(FIRGeneralHeaderSize + Len(fr.bytes), 1, cert_flag, 1)
                        \o fr.bytes,
              frames |-> <<fr.bytes>>]

\* "positions.add(frame.header.position)" over all frames
Positions(ims) == {ims[k].header.position : k \in 1..Len(ims)}

\* the flag taken from the first frame only
AnyCertificationOfFirst(ims) == Len(ims[1].header.certification_records) > 0

\* "if len(frame.header.certification_records)>0: cert_flag = True" over all frames
AnyCertification(ims) ==
    \E k \in 1..Len(ims) : Len(ims[k].header.certification_records) > 0

\* An image opened from a container is [n_frames, family, stream, stored,
\* nav]: the navigator state nav over the stream of the stored frames.
\* hasattr(image, 'n_frames')
HasFrames(im) == "n_frames" \in DOMAIN im

\* What an image shows: for an opened image the header the navigator exposes
\* and the pixels of the tile set at the same offset.
Current(im) == IF HasFrames(im) THEN im.stored[im.nav.header.id + 1] ELSE im

\* the one value of a one-element set: a value bound through such a set is
\* computed once, however often it is used
TheOne(S) == CHOOSE r \in S : TRUE

\* "for idx in range(image.n_frames): image.seek(idx); yield image"
RECURSIVE FramesOfImage(_, _)
FramesOfImage(im, idx) ==
    IF idx >= im.n_frames THEN [err |-> "none", yielded |-> <<>>, im |-> im]
    ELSE TheOne({
             IF im1.nav.err # "none" THEN [err |-> im1.nav.err, yielded |-> <<>>, im |-> im1]
             ELSE TheOne({[err |-> rest.err,
                           yielded |-> <<Current(im1)>> \o rest.yielded,
                           im |-> rest.im] : rest \in {FramesOfImage(im1, idx + 1)}})
             : im1 \in {[im EXCEPT !.nav = seek(im.family, im.stream, im.n_frames, im.nav, idx)]}})

\* The generator frames(images) of _save_all, run to its end or to the seek
\* that raises: the frames yielded and the images as the seeks leave them.
RECURSIVE Frames(_)
Frames(ims) ==
    IF ims = <<>> THEN [err |-> "none", yielded |-> <<>>, ims |-> <<>>]
    ELSE TheOne({
             IF one.err # "none"
             THEN [err |-> one.err, yielded |-> one.yielded, ims |-> <<one.im>> \o Tail(ims)]
             ELSE TheOne({[err |-> rest.err,
                           yielded |-> one.yielded \o rest.yielded,
                           ims |-> <<one.im>> \o rest.ims] : rest \in {Frames(Tail(ims))}})
             : one \in {IF HasFrames(Head(ims)) THEN FramesOfImage(Head(ims), 0)
                        ELSE [err |-> "none", yielded |-> <<Head(ims)>>, im |-> Head(ims)]}})

\* The first exception of "for frame in frames(images): _save_frame(...)":
\* that of the first frame that cannot be encoded, else that of the generator
FirstError(frs, gen_err) ==
    IF \E k \in 1..Len(frs) : frs[k].err # "none"
    THEN frs[CHOOSE j \in 1..Len(frs) :
                 frs[j].err # "none" /\ \A l \in 1..(j - 1) : frs[l].err = "none"].err
    ELSE gen_err

\* The general header and the frames of _save_all: seen are the frames of the
\* first walk, for the flag and the positions, gen the result of the second
FIR_write_all(seen, gen) ==
    LET cert_flag == AnyCertification(seen)
        frs == [k \in 1..Len(gen.yielded) |-> FIR_save_frame(gen.yielded[k], cert_flag)]
        e == FirstError(frs, gen.err)
    IN  IF e # "none"
        THEN [err |-> e, out |-> <<>>, frames |-> <<>>, ims |-> gen.ims]
        ELSE LET frames_buffers == [k \in 1..Len(frs) |-> frs[k].bytes]
                 length == SumLen(frames_buffers)
             IN  [err |-> "none",
                  out |-> FIRGeneralHeader(FIRGeneralHeaderSize + length,
                                           Len(frames_buffers), cert_flag,
                                           Cardinality(Positions(seen)))
                            \o Concat(frames_buffers),
                  frames |-> frames_buffers,
                  ims |-> gen.ims]

\* _save_all(im, fp, filename): ims is [im] + append_images.  The frames are
\* walked twice, for the flag and the positions, then to be encoded.
FIR_save_all(ims) ==
    IF Len(ims) = 1 /\ ~HasFrames(ims[1])
    THEN LET r == FIR_save(ims[1])
         IN  [err |-> r.err, out |-> r.out, frames |-> r.frames, ims |-> ims]
    ELSE TheOne({
             IF p1.err # "none"
             THEN [err |-> p1.err, out |-> <<>>, frames |-> <<>>, ims |-> p1.ims]
             ELSE TheOne({FIR_write_all(p1.yielded, p2) : p2 \in {Frames(p1.ims)}})
             : p1 \in {Frames(ims)}})

----------------------------------------------------------------------------
(* Finger family: decoding the bytes of a container (FIR.py) *)

DecodeFailed(e) == [err |-> e, nt |-> <<>>, nb |-> 0, ns |-> <<>>]

\* datetime.datetime(*struct.unpack(">HBBBBBH", b)): the last field is given
\* to the constructor as the microsecond
UnpackDatetime(b, off) ==
    [year |-> UInt(b, off, 2), month |-> b[off + 3], day |-> b[off + 4],
     hour |-> b[off + 5], minute |-> b[off + 6], second |-> b[off + 7],
     microsecond |-> UInt(b, off + 7, 2)]

\* FIRQualityRecord._make(struct.unpack(">B2s2s", ...))
UnpackQuality(b, off) ==
    [score |-> b[off + 1], algo_vendor_id |-> Sub(b, off + 1, 2), algo_id |-> Sub(b, off + 3, 2)]

\* FIRCertificationRecord._make(struct.unpack(">2s1s", ...))
UnpackCertification(b, off) ==
    [authority_id |-> Sub(b, off, 2), scheme_id |-> Sub(b, off + 2, 1)]

\* read_header() on the bytes b, the stream positioned at off, with
\* info['certification_flag'] = cert_flag: (nt, nb, ns) or the exception.
\* A read that comes back short makes struct.unpack raise.
FIR_read_header(b, off, cert_flag) ==
    IF off + 19 > Len(b) THEN DecodeFailed("struct.error")
    ELSE
    LET q_length == b[off + 19]
        qOff == off + 19
        qEnd == qOff + 5 * q_length
    IN  IF qEnd > Len(b) THEN DecodeFailed("struct.error")
        ELSE IF cert_flag /\ qEnd + 1 > Len(b) THEN DecodeFailed("struct.error")
        ELSE
        LET c_length == IF cert_flag THEN b[qEnd + 1] ELSE 0
            cOff == IF cert_flag THEN qEnd + 1 ELSE qEnd
            cEnd == cOff + 3 * c_length
        IN  IF cEnd + 22 > Len(b) THEN DecodeFailed("struct.error")
            ELSE
            LET position == b[cEnd + 1]
                scale_units == b[cEnd + 3]
                algo == b[cEnd + 13]
                impression == b[cEnd + 14]
            IN  IF ~(HasCode(POSITION, position) /\ HasCode(UNIT, scale_units)
                     /\ HasCode(COMPRESSION, algo) /\ HasCode(IMPRESSION, impression))
                THEN DecodeFailed("KeyError")
                ELSE
                [err |-> "none",
                 nt |-> [length |-> UInt(b, off, 4),
                         capture_datetime |-> UnpackDatetime(b, off + 4),
                         capture_device_technology_id |-> Sub(b, off + 13, 1),
                         capture_device_vendor_id |-> Sub(b, off + 14, 2),
                         capture_device_type_id |-> Sub(b, off + 16, 2),
                         quality_records |->
                             [k \in 1..q_length |-> UnpackQuality(b, qOff + 5 * (k - 1))],
                         certification_records |->
                             [k \in 1..c_length |-> UnpackCertification(b, cOff + 3 * (k - 1))],
                         position |-> Name(FromWire(POSITION, position)),
                         number |-> b[cEnd + 2],
                         scale_units |-> Name(FromWire(UNIT, scale_units)),
                         horizontal_scan_sampling_rate |-> UInt(b, cEnd + 3, 2),
                         vertical_scan_sampling_rate |-> UInt(b, cEnd + 5, 2),
                         horizontal_image_sampling_rate |-> UInt(b, cEnd + 7, 2),
                         vertical_image_sampling_rate |-> UInt(b, cEnd + 9, 2),
                         image_compression_algo |-> Name(FromWire(COMPRESSION, algo)),
                         impression_type |-> Name(FromWire(IMPRESSION, impression))],
                 nb |-> cEnd + 22 - off,
                 ns |-> [bit_depth |-> b[cEnd + 12],
                         horizontal_line_length |-> UInt(b, cEnd + 14, 2),
                         vertical_line_length |-> UInt(b, cEnd + 16, 2),
                         image_data_length |-> UInt(b, cEnd + 18, 4)]]

\* _open with the two tests in the other order
OpenHeaderVersionFirst(b) ==
    IF ReadAt(b, 4, 4) # Version020 THEN [err |-> "SyntaxError: Invalid version"]
    ELSE IF ReadAt(b, 0, 4) # MagicFIR THEN [err |-> "SyntaxError: not a ISO19794-4 file"]
    ELSE [err |-> "struct.error"]

\* The general header as _open reads it: FIRHeader._make(struct.unpack(">4sIH?B", ...))
FIR_open_header(b) ==
    IF ReadAt(b, 0, 4) # MagicFIR THEN [err |-> "SyntaxError: not a ISO19794-4 file"]
    ELSE IF ReadAt(b, 4, 4) # Version020 THEN [err |-> "SyntaxError: Invalid version"]
    ELSE IF Len(b) < FIRGeneralHeaderSize THEN [err |-> "struct.error"]
    ELSE [err |-> "none",
          length |-> UInt(b, 8, 4),
          nb_repr |-> UInt(b, 12, 2),
          cert_flag |-> b[15] # 0,
          nb_pos |-> b[16]]

\* The frames met by open, seek(1), seek(2), ...: each is read at the offset
\* of the one before plus the length it declares.  The walk stops at the
\* first frame that cannot be decoded.
RECURSIVE FIRWalk(_, _, _, _)
FIRWalk(b, off, n, cert_flag) ==
    IF n = 0 THEN <<>>
    ELSE LET r == FIR_read_header(b, off, cert_flag)
             f == [err |-> r.err, nt |-> r.nt, nb |-> r.nb, ns |-> r.ns, offset |-> off]
         IN  IF r.err # "none" THEN <<f>>
             ELSE <<f>> \o FIRWalk(b, off + r.nt.length, n - 1, cert_flag)

----------------------------------------------------------------------------
(* Face family: tables, the frame encoder and the two writers (FAC.py) *)

\* The keys of a representation header that are legal for each version
FACRepresentationHeaderInfo ==
    [k \in {"capture_datetime", "capture_device_technology_id", "capture_device_vendor_id",
            "capture_device_type_id", "quality_records", "subject_height"} |-> {}]
    @@
    [k \in {"landmark_points", "gender", "eye_colour", "hair_colour", "property_mask",
            "expression", "pose_yaw", "pose_pitch", "pose_roll", "pose_uncertainty_yaw",
            "pose_uncertainty_pitch", "pose_uncertainty_roll", "face_image_type",
            "image_data_type", "source_type", "device_type", "quality"} |-> {"010"}]

GENDER == ("X" :> 0) @@ ("M" :> 1) @@ ("F" :> 2) @@ ("U" :> 255)

EYE_COLOUR ==
    ("UNSPECIFIED" :> 0) @@ ("BLACK" :> 1) @@ ("BLUE" :> 2) @@ ("BROWN" :> 3) @@
    ("GRAY" :> 4) @@ ("GREEN" :> 5) @@ ("MULTI_COLOURED" :> 6) @@ ("PINK" :> 7) @@
    ("UNKNOWN" :> 255)

HAIR_COLOUR ==
    ("UNSPECIFIED" :> 0) @@ ("BALD" :> 1) @@ ("BLACK" :> 2) @@ ("BLONDE" :> 3) @@
    ("BROWN" :> 4) @@ ("GRAY" :> 5) @@ ("WHITE" :> 6) @@ ("RED" :> 7) @@ ("UNKNOWN" :> 255)

PROPERTY_FLAGS ==
    ("SPECIFIED" :> 1) @@ ("GLASSES" :> 2) @@ ("MOUSTACHE" :> 4) @@ ("BEARD" :> 8) @@
    ("TEETH_VISIBLE" :> 16) @@ ("BLINK" :> 32) @@ ("MOUTH_OPEN" :> 64) @@
    ("LEFT_EYE_PATCH" :> 128) @@ ("RIGHT_EYE_PATCH" :> 256) @@ ("DARK_GLASSES" :> 512) @@
    ("MEDICAL_CONDITION" :> 1024)

\* the values are the two bytes b"\x00\x0N", read here as a number
EXPRESSION ==
    ("UNSPECIFIED" :> 0) @@ ("NEUTRAL" :> 1) @@ ("SMILE_CLOSED_JAW" :> 2) @@
    ("SMILE_OPEN_MOUTH" :> 3) @@ ("RAISED_EYEBROWS" :> 4) @@ ("EYES_LOOKING_AWAY" :> 5) @@
    ("SQUINTING" :> 6) @@ ("FROWNING" :> 7)

FACE_IMAGE_TYPE == ("BASIC" :> 0) @@ ("FULL_FRONTAL" :> 1) @@ ("TOKEN_FRONTAL" :> 2)

IMAGE_DATA_TYPE == ("JPEG" :> 0) @@ ("JPEG2000" :> 1)

SOURCE_TYPE ==
    ("UNSPECIFIED" :> 0) @@ ("STATIC_UNKNOWN" :> 1) @@ ("STATIC_CAMERA" :> 2) @@
    ("STATIC_SCANNER" :> 3) @@ ("FRAME_UNKNWON" :> 4) @@ ("FRAME_ANALOGUE_CAMERA" :> 5) @@
    ("FRAME_DIGITAL_CAMERA" :> 6) @@ ("UNKNOWN" :> 7)

\* code -> (bit depth, mode)
COLOUR_SPACE ==
    (0 :> <<24, "RGB">>) @@ (1 :> <<24, "RGB">>) @@ (2 :> <<24, "YCbCr">>) @@
    (3 :> <<8, "L">>) @@ (4 :> <<24, "RGB">>)

\* A face header is a dict: the record h holds the values, h.keys the keys
\* that are present.  ns.get(key, default)
Get(h, key, default) == IF key \in h.keys THEN h[key] ELSE default

\* "[k for k, v in COLOUR_SPACE.items() if im.mode==v[1]][0]"
ColourSpacesOf(mode) == {c \in DOMAIN COLOUR_SPACE : COLOUR_SPACE[c][2] = mode}
ColourSpaceCode(mode) == CHOOSE c \in ColourSpacesOf(mode) : \A d \in ColourSpacesOf(mode) : c <= d

\* "functools.reduce(lambda x,y: x|y, [v for k,v in PROPERTY_FLAGS.items() if k in mask], 0)":
\* the flags are distinct bits, so the bitwise OR is the sum over the names present
RECURSIVE SumOver(_, _)
SumOver(table, names) ==
    IF names = {} THEN 0
    ELSE LET k == CHOOSE x \in names : TRUE
         IN  table[k] + SumOver(table, names \ {k})

\* the mask kept to its low byte
PropertyMaskLowByte(mask) ==
    SumOver(PROPERTY_FLAGS, {k \in DOMAIN PROPERTY_FLAGS : \E j \in 1..Len(mask) : mask[j] = k})
        % 256

PropertyMaskValue(mask) ==
    SumOver(PROPERTY_FLAGS, {k \in DOMAIN PROPERTY_FLAGS : \E j \in 1..Len(mask) : mask[j] = k})

\* struct.pack(">BBHHH", pt.point_type, pt.point_code, pt.x, pt.y, pt.z)
PackLandmark(pt) ==
    BE(pt.point_type, 1) \o BE(pt.point_code, 1) \o BE(pt.x, 2) \o BE(pt.y, 2) \o BE(pt.z, 2)

\* for pt in ns.get('landmark_points', []): rheader += ...
PackLandmarks(recs) == Concat([k \in 1..Len(recs) |-> PackLandmark(recs[k])])

\* the timestamp datetime.datetime.now() returns when the caller gives none
NowStamp == [year |-> 2026, month |-> 1, day |-> 1, hour |-> 0, minute |-> 0, second |-> 0,
             microsecond |-> 0]

\* the keys the schema does not list, whatever the version
FACIllegalKeysOfSchema(ns, version) == ns.keys \ DOMAIN FACRepresentationHeaderInfo

\* "set(ns.keys()) - {k for k,v in FACRepresentationHeaderInfo.items() if version in v}"
FACIllegalKeys(ns, version) ==
    ns.keys \ {k \in DOMAIN FACRepresentationHeaderInfo : version \in FACRepresentationHeaderInfo[k]}

FACCompressionError(ns) ==
    IF Get(ns, "image_data_type", "JPEG") \in {"JPEG", "JPEG2000"} THEN "none" ELSE "SyntaxError"

\* The table lookups of the version 010 facial information block and of the
\* image information block
FACPackError(im, version) ==
    LET ns == im.header
    IN  IF version = "010"
           /\ ~(/\ Get(ns, "gender", "X") \in DOMAIN GENDER
                /\ Get(ns, "eye_colour", "UNSPECIFIED") \in DOMAIN EYE_COLOUR
                /\ Get(ns, "hair_colour", "UNSPECIFIED") \in DOMAIN HAIR_COLOUR
                /\ Get(ns, "expression", "UNSPECIFIED") \in DOMAIN EXPRESSION)
        THEN "KeyError"
        ELSE IF ~(/\ Get(ns, "face_image_type", "BASIC") \in DOMAIN FACE_IMAGE_TYPE
                  /\ Get(ns, "image_data_type", "JPEG") \in DOMAIN IMAGE_DATA_TYPE)
        THEN "KeyError"
        ELSE IF ColourSpacesOf(im.mode) = {} THEN "IndexError"
        ELSE IF Get(ns, "source_type", "UNSPECIFIED") \notin DOMAIN SOURCE_TYPE THEN "KeyError"
        ELSE "none"

\* struct.pack(">HBBB3s2sbbbbbb", ...): the facial information block, version 010
FACFacialBlock(ns) ==
    BE(Len(Get(ns, "landmark_points", <<>>)), 2)
        \o BE(GENDER[Get(ns, "gender", "X")], 1)
        \o BE(EYE_COLOUR[Get(ns, "eye_colour", "UNSPECIFIED")], 1)
        \o BE(HAIR_COLOUR[Get(ns, "hair_colour", "UNSPECIFIED")], 1)
        \o Sub(BE(PropertyMaskValue(Get(ns, "property_mask", <<>>)), 4), 1, 3)
        \o BE(EXPRESSION[Get(ns, "expression", "UNSPECIFIED")], 2)
        \o SByte(Get(ns, "pose_yaw", 0))
        \o SByte(Get(ns, "pose_pitch", 0))
        \o SByte(Get(ns, "pose_roll", 0))
        \o SByte(Get(ns, "pose_uncertainty_yaw", 0))
        \o SByte(Get(ns, "pose_uncertainty_pitch", 0))
        \o SByte(Get(ns, "pose_uncertainty_roll", 0))

\* struct.pack(">BBHHBB2sH", ...): the image information block
FACImageBlock(im) ==
    LET ns == im.header
    IN  BE(FACE_IMAGE_TYPE[Get(ns, "face_image_type", "BASIC")], 1)
        \o BE(IMAGE_DATA_TYPE[Get(ns, "image_data_type", "JPEG")], 1)
        \o BE(im.size[1], 2) \o BE(im.size[2], 2)
        \o BE(ColourSpaceCode(im.mode), 1)
        \o BE(SOURCE_TYPE[Get(ns, "source_type", "UNSPECIFIED")], 1)
        \o <<0, 0>>
        \o BE(0, 2)

\* rheader of _save_frame
FACRepresentationBytes(im, version) ==
    LET ns == im.header
    IN  (IF version = "030" THEN PackDatetime(Get(ns, "capture_datetime", NowStamp)) ELSE <<>>)
        \o (IF version = "010" THEN FACFacialBlock(ns) ELSE <<>>)
        \o (IF version = "030"
            THEN PackQualities(Get(ns, "quality_records", <<>>)) ELSE <<>>)
        \o PackLandmarks(Get(ns, "landmark_points", <<>>))
        \o FACImageBlock(im)

\* _save_frame(im, fp, version): the bytes written to fp, or the exception;
\* detail is the set of keys the message of the first SyntaxError names
FAC_save_frame(im, version) ==
    LET ns == im.header
        illegal_keys == FACIllegalKeys(ns, version)
        e1 == IF illegal_keys # {} THEN "SyntaxError" ELSE FACCompressionError(ns)
        e2 == IF e1 # "none" THEN e1 ELSE FACPackError(im, version)
    IN  IF e2 # "none" THEN [err |-> e2, bytes |-> <<>>, detail |-> illegal_keys]
        ELSE LET rheader == FACRepresentationBytes(im, version)
             IN  [err |-> "none",
                  bytes |-> BE(FrameLength(rheader, im.image_data), 4)
                              \o rheader \o im.image_data,
                  detail |-> {}]

\* struct.pack(">4sIH", b"010\x00", length, count)
FAC010GeneralHeader(length, count) == Version010 \o BE(length, 4) \o BE(count, 2)

\* _save(im, fp, filename)
FAC_save(im, version) ==
    LET fr == FAC_save_frame(im, version)
    IN  IF fr.err # "none"
        THEN [err |-> fr.err, out |-> <<>>, frames |-> <<>>, detail |-> fr.detail]
        ELSE [err |-> "none",
              out |-> MagicFAC
                        \o (IF version = "010"
                            THEN FAC010GeneralHeader(FACGeneralHeaderSize + Len(fr.bytes), 1)
                            ELSE <<>>)
                        \o fr.bytes,
              frames |-> <<fr.bytes>>,
              detail |-> {}]

\* the keys named by the exception of the first frame that cannot be encoded
FirstDetail(frs) ==
    IF \E k \in 1..Len(frs) : frs[k].err # "none"
    THEN frs[CHOOSE j \in 1..Len(frs) :
                 frs[j].err # "none" /\ \A l \in 1..(j - 1) : frs[l].err = "none"].detail
    ELSE {}

\* The general header and the frames of _save_all, gen being the result of
\* the walk over the frames.  For version 030 the general header refers to
\* "positions", a name the function never binds: NameError, after the magic
\* has been written.
FAC_write_all(gen, version) ==
    LET frs == [k \in 1..Len(gen.yielded) |-> FAC_save_frame(gen.yielded[k], version)]
        e == FirstError(frs, gen.err)
    IN  IF e # "none"
        THEN [err |-> e, out |-> <<>>, frames |-> <<>>, ims |-> gen.ims,
              detail |-> FirstDetail(frs)]
        ELSE LET frames_buffers == [k \in 1..Len(frs) |-> frs[k].bytes]
                 length == SumLen(frames_buffers)
             IN  IF version = "030"
                 THEN [err |-> "NameError", out |-> MagicFAC,
                       frames |-> frames_buffers, ims |-> gen.ims, detail |-> {}]
                 ELSE [err |-> "none",
                       detail |-> {},
                       out |-> MagicFAC
                                 \o (IF version = "010"
                                     THEN FAC010GeneralHeader(FACGeneralHeaderSize + length,
                                                              Len(frames_buffers))
                                     ELSE <<>>)
                                 \o Concat(frames_buffers),
                       frames |-> frames_buffers,
                       ims |-> gen.ims]

\* _save_all(im, fp, filename): ims is [im] + append_images
FAC_save_all(ims, version) ==
    IF Len(ims) = 1 /\ ~HasFrames(ims[1])
    THEN LET r == FAC_save(ims[1], version)
         IN  [err |-> r.err, out |-> r.out, frames |-> r.frames, ims |-> ims,
              detail |-> r.detail]
    ELSE TheOne({FAC_write_all(p, version) : p \in {Frames(ims)}})

----------------------------------------------------------------------------
(* Face family: decoding the bytes of a container (FAC.py) *)

\* The general header as _open reads it.  Version 020 is accepted by the
\* version test but sets no nb_facial_images (KeyError at n_frames); for
\* version 030 struct.unpack(">IH?H", header[8:14]) is given 6 bytes for 9.
FAC_open_header(b) ==
    IF ReadAt(b, 0, 4) # MagicFAC THEN [err |-> "SyntaxError: not a ISO19794-5 file"]
    ELSE IF ReadAt(b, 4, 4) \notin {Version010, Version020, Version030}
    THEN [err |-> "SyntaxError: Invalid version"]
    ELSE IF ReadAt(b, 4, 4) = Version020 THEN [err |-> "KeyError"]
    ELSE IF ReadAt(b, 4, 4) = Version030 \/ Len(b) < FACGeneralHeaderSize THEN [err |-> "struct.error"]
    ELSE [err |-> "none", version |-> "010",
          length |-> UInt(b, 8, 4), nb_facial_images |-> UInt(b, 12, 2)]

\* struct.unpack of a signed byte (format b)
FromSByte(n) == IF n >= 128 THEN n - 256 ELSE n

\* the names of PROPERTY_FLAGS in the order of the dict
PropertyFlagNames ==
    <<"SPECIFIED", "GLASSES", "MOUSTACHE", "BEARD", "TEETH_VISIBLE", "BLINK", "MOUTH_OPEN",
      "LEFT_EYE_PATCH", "RIGHT_EYE_PATCH", "DARK_GLASSES", "MEDICAL_CONDITION">>

\* "[k for k, v in PROPERTY_FLAGS.items() if ns.property_mask & v]"
FlagsOfMask(mask) ==
    LET Set(k) == (mask \div PROPERTY_FLAGS[k]) % 2 = 1
    IN  SelectSeq(PropertyFlagNames, Set)

\* FACLandmarkPoint._make(struct.unpack(">BBHHH", ...))
UnpackLandmark(b, off) ==
    [point_type |-> b[off + 1], point_code |-> b[off + 2], x |-> UInt(b, off + 2, 2),
     y |-> UInt(b, off + 4, 2), z |-> UInt(b, off + 6, 2)]

FACDecodeFailed(e) == [err |-> e, d |-> <<>>, nb |-> 0, ns |-> <<>>]

\* the keys of the dict read_header builds
FACDecodedKeys ==
    {"landmark_points", "gender", "eye_colour", "hair_colour", "property_mask", "expression",
     "pose_yaw", "pose_pitch", "pose_roll", "pose_uncertainty_yaw", "pose_uncertainty_pitch",
     "pose_uncertainty_roll", "face_image_type", "image_data_type", "source_type",
     "device_type", "quality"}

\* read_header() on the bytes b of a version 010 container, the stream
\* positioned at off: (d, nb, ns) or the exception
FAC_read_header(b, off) ==
    IF off + 20 > Len(b) THEN FACDecodeFailed("struct.error")
    ELSE
    LET n == UInt(b, off + 4, 2)
        lEnd == off + 20 + 8 * n
    IN  IF lEnd + 12 > Len(b) THEN FACDecodeFailed("struct.error")
        ELSE
        LET gender == b[off + 7]
            eye_colour == b[off + 8]
            hair_colour == b[off + 9]
            property_mask == UInt(b, off + 9, 3)
            expression == UInt(b, off + 12, 2)
            face_image_type == b[lEnd + 1]
            image_data_type == b[lEnd + 2]
            colour_space == b[lEnd + 7]
            source_type == b[lEnd + 8]
        IN  IF ~(/\ colour_space \in DOMAIN COLOUR_SPACE
                 /\ HasCode(GENDER, gender) /\ HasCode(EYE_COLOUR, eye_colour)
                 /\ HasCode(HAIR_COLOUR, hair_colour) /\ HasCode(EXPRESSION, expression)
                 /\ HasCode(FACE_IMAGE_TYPE, face_image_type)
                 /\ HasCode(IMAGE_DATA_TYPE, image_data_type)
                 /\ HasCode(SOURCE_TYPE, source_type))
            THEN FACDecodeFailed("KeyError")
            ELSE
            [err |-> "none",
             d |-> [keys |-> FACDecodedKeys,
                    landmark_points |-> [k \in 1..n |-> UnpackLandmark(b, off + 20 + 8 * (k - 1))],
                    gender |-> FromWire(GENDER, gender),
                    eye_colour |-> FromWire(EYE_COLOUR, eye_colour),
                    hair_colour |-> FromWire(HAIR_COLOUR, hair_colour),
                    property_mask |-> FlagsOfMask(property_mask),
                    expression |-> FromWire(EXPRESSION, expression),
                    pose_yaw |-> FromSByte(b[off + 15]),
                    pose_pitch |-> FromSByte(b[off + 16]),
                    pose_roll |-> FromSByte(b[off + 17]),
                    pose_uncertainty_yaw |-> FromSByte(b[off + 18]),
                    pose_uncertainty_pitch |-> FromSByte(b[off + 19]),
                    pose_uncertainty_roll |-> FromSByte(b[off + 20]),
                    face_image_type |-> FromWire(FACE_IMAGE_TYPE, face_image_type),
                    image_data_type |-> FromWire(IMAGE_DATA_TYPE, image_data_type),
                    source_type |-> FromWire(SOURCE_TYPE, source_type),
                    device_type |-> Sub(b, lEnd + 8, 2),
                    quality |-> UInt(b, lEnd + 10, 2)],
             nb |-> lEnd + 12 - off,
             ns |-> [length |-> UInt(b, off, 4),
                     width |-> UInt(b, lEnd + 2, 2),
                     height |-> UInt(b, lEnd + 4, 2),
                     bit_depth |-> COLOUR_SPACE[colour_space][1],
                     mode |-> COLOUR_SPACE[colour_space][2]]]

\* The frames met by open, seek(1), seek(2), ...
RECURSIVE FACWalk(_, _, _)
FACWalk(b, off, n) ==
    IF n = 0 THEN <<>>
    ELSE LET r == FAC_read_header(b, off)
             f == [err |-> r.err, d |-> r.d, nb |-> r.nb, ns |-> r.ns, offset |-> off]
         IN  IF r.err # "none" THEN <<f>>
             ELSE <<f>> \o FACWalk(b, off + r.ns.length, n - 1)

----------------------------------------------------------------------------
(* Specification of the writers *)

SeqsUpTo(S, n) == UNION {[1..k -> S] : k \in 0..n}

\* The header the documentation of FIR.py builds, and its image
FIRBaseHeader ==
    [length |-> 0,
     capture_datetime |-> [year |-> 2020, month |-> 1, day |-> 2, hour |-> 3, minute |-> 4,
                           second |-> 5, microsecond |-> 6000],
     capture_device_technology_id |-> <<0>>,
     capture_device_vendor_id |-> <<171, 205>>,
     capture_device_type_id |-> <<18, 52>>,
     quality_records |-> <<>>,
     certification_records |-> <<>>,
     position |-> Name("Left index finger"),
     number |-> 1,
     scale_units |-> Name("PPI"),
     horizontal_scan_sampling_rate |-> 500,
     vertical_scan_sampling_rate |-> 500,
     horizontal_image_sampling_rate |-> 500,
     vertical_image_sampling_rate |-> 500,
     image_compression_algo |-> Name("RAW"),
     impression_type |-> Name("Live-scan rolled")]

FIRBaseImage == [header |-> FIRBaseHeader, mode |-> "L", size |-> <<1, 1>>, image_data |-> <<170>>]

CertRecords ==
    {[authority_id |-> <<120, 171>>, scheme_id |-> <<1>>],
     [authority_id |-> <<18, 52>>, scheme_id |-> <<2>>]}

QualityRecord == [score |-> 80, algo_vendor_id |-> <<0, 1>>, algo_id |-> <<0, 2>>]

\* The finger images given to the writer: the documentation's image with
\* each certification list up to MaxCerts records, with the position given
\* as a number or as another name, with a quality record, with a larger
\* payload, and with all of these at once.
FIRImages ==
    {[FIRBaseImage EXCEPT !.header.certification_records = c] : c \in SeqsUpTo(CertRecords, MaxCerts)}
    \cup {[FIRBaseImage EXCEPT !.header.position = x] : x \in {Code(7), Name("Right thumb")}}
    \cup {[FIRBaseImage EXCEPT !.header.quality_records = <<QualityRecord>>],
          [FIRBaseImage EXCEPT !.size = <<2, 1>>, !.image_data = <<170, 85>>],
          [FIRBaseImage EXCEPT !.header.quality_records = <<QualityRecord, QualityRecord>>,
                               !.header.certification_records =
                                   <<[authority_id |-> <<18, 52>>, scheme_id |-> <<2>>]>>,
                               !.header.position = Code(1),
                               !.size = <<2, 1>>, !.image_data = <<170, 85>>]}

Landmarks ==
    {[point_type |-> 1, point_code |-> 2, x |-> 3, y |-> 4, z |-> 5],
     [point_type |-> 1, point_code |-> 17, x |-> 300, y |-> 400, z |-> 0]}

\* dict(): no key is present; the fields hold what ns.get() takes as default
FACBaseHeader ==
    [keys |-> {}, landmark_points |-> <<>>, gender |-> "X", eye_colour |-> "UNSPECIFIED",
     hair_colour |-> "UNSPECIFIED", property_mask |-> <<>>, expression |-> "UNSPECIFIED",
     pose_yaw |-> 0, pose_pitch |-> 0, pose_roll |-> 0, pose_uncertainty_yaw |-> 0,
     pose_uncertainty_pitch |-> 0, pose_uncertainty_roll |-> 0, face_image_type |-> "BASIC",
     image_data_type |-> "JPEG", source_type |-> "UNSPECIFIED", device_type |-> <<0, 0>>,
     quality |-> 0]

FACBaseImage == [header |-> FACBaseHeader, mode |-> "RGB", size |-> <<1, 1>>, image_data |-> <<255, 216>>]

\* The face images given to the writer: a minimal header (dict()), each
\* list of landmark points up to MaxLandmarks, a gender, a property mask, a
\* larger payload and a single-channel image.
FACImages ==
    {FACBaseImage}
    \cup {[FACBaseImage EXCEPT !.header.keys = {"landmark_points"},
                              !.header.landmark_points = l] : l \in SeqsUpTo(Landmarks, MaxLandmarks)}
    \cup {[FACBaseImage EXCEPT !.header.keys = {"gender"}, !.header.gender = "M"],
          [FACBaseImage EXCEPT !.header.keys = {"property_mask"},
                               !.header.property_mask = <<"GLASSES">>],
          [FACBaseImage EXCEPT !.image_data = <<255, 216, 255>>],
          [FACBaseImage EXCEPT !.mode = "L"]}

ImagesOf(fam) == IF fam = "FIR" THEN FIRImages ELSE FACImages

NavIdle ==
    /\ family = "FIR"
    /\ stream = <<>>
    /\ n_frames = 0
    /\ frame = -1
    /\ next = 0
    /\ frame_pos = <<>>
    /\ rheaders = <<>>
    /\ header = NoHeader
    /\ im_mode = NoMode
    /\ im_size = <<0, 0>>
    /\ shared = FALSE
    /\ err = "none"
    /\ reads = <<>>
    /\ lastOp = "idle"
    /\ edits = 0
    /\ callerHdr = [k \in Indexes |-> NoHeader]
    /\ failed = FALSE

WInit ==
    /\ wfam \in Families
    /\ wversion = "010"
    /\ images \in UNION {[1..n -> ImagesOf(wfam)] : n \in 1..MaxImages}
    /\ out = <<>>
    /\ frames = <<>>
    /\ werr = "none"
    /\ wdetail = {}
    /\ wop = "ready"
    /\ NavIdle
    /\ ReaderIdle

SetWritten(r) ==
    /\ out' = r.out
    /\ frames' = r.frames
    /\ werr' = r.err
    /\ wdetail' = (IF "detail" \in DOMAIN r THEN r.detail ELSE {})

\* im.save(fp, format): the single-frame writer, on what the first image shows
Save ==
    /\ wop = "ready"
    /\ SetWritten(IF wfam = "FIR" THEN FIR_save(Current(images[1]))
                  ELSE FAC_save(Current(images[1]), wversion))
    /\ wop' = "save"
    /\ UNCHANGED <<wfam, wversion, images>>
    /\ UNCHANGED navVars
    /\ UNCHANGED readerVars

\* im.save(fp, format, save_all=True, append_images=[...]): the multi-frame writer
SaveAll ==
    /\ wop = "ready"
    /\ LET r == IF wfam = "FIR" THEN FIR_save_all(images) ELSE FAC_save_all(images, wversion)
       IN  SetWritten(r) /\ images' = r.ims
    /\ wop' = "save_all"
    /\ UNCHANGED <<wfam, wversion>>
    /\ UNCHANGED navVars
    /\ UNCHANGED readerVars

WNext == Save \/ SaveAll

SpecW == WInit /\ [][WNext]_vars

----------------------------------------------------------------------------
(* Specification of the writers given images opened from a container *)

\* The k-th frame of a stored container: its number and its pixels tell it
\* from the others, its payload is one or two bytes long.
StoredFrame(fam, k) ==
    IF fam = "FIR"
    THEN [FIRBaseImage EXCEPT !.header.number = k,
                              !.size = <<1 + (k % 2), 1>>,
                              !.image_data = [j \in 1..(1 + (k % 2)) |-> k]]
    ELSE [FACBaseImage EXCEPT !.image_data = <<255, 216>> \o [j \in 1..(1 + (k % 2)) |-> k]]

\* The bytes of the container the multi-frame writer makes of plain frames
ContainerOf(fam, plain) ==
    IF fam = "FIR" THEN FIR_save_all(plain).out ELSE FAC_save_all(plain, "010").out

\* The frames of the container b as an opened image shows them: the decoded
\* header, the mode and the size _seek sets, the pixels of the tile
DecodedFrames(fam, b) ==
    IF fam = "FIR"
    THEN LET w == FIRWalk(b, FIRGeneralHeaderSize, FIR_open_header(b).nb_repr,
                          FIR_open_header(b).cert_flag)
         IN  [k \in 1..Len(w) |->
                [header |-> w[k].nt, mode |-> "L",
                 size |-> <<w[k].ns.horizontal_line_length, w[k].ns.vertical_line_length>>,
                 image_data |-> Sub(b, w[k].offset + w[k].nb, w[k].ns.image_data_length)]]
    ELSE LET w == FACWalk(b, FACGeneralHeaderSize, FAC_open_header(b).nb_facial_images)
         IN  [k \in 1..Len(w) |->
                [header |-> w[k].d, mode |-> w[k].ns.mode,
                 size |-> <<w[k].ns.width, w[k].ns.height>>,
                 image_data |-> Sub(b, w[k].offset + w[k].nb, w[k].ns.length - w[k].nb)]]

\* The stream of the container, as the navigator sees it: the lengths in
\* the length fields, mode and size as decoded
FrameStream(fam, b) ==
    TheOne({[k \in 1..Len(starts) |->
                StoredAs(UInt(b, starts[k], 4), d[k].mode, d[k].size, "ok")]
            : starts \in {FrameStarts(b, FirstOffset(fam), UInt(b, 12, 2))},
              d \in {DecodedFrames(fam, b)}})

\* Image.open() of the container b, as the writers are given it
OpenBytes(fam, b) ==
    TheOne({[n_frames |-> UInt(b, 12, 2), family |-> fam, stream |-> st,
             stored |-> DecodedFrames(fam, b), nav |-> Opened(fam, st)]
            : st \in {FrameStream(fam, b)}})

\* Image.open() of the container made of the plain frames
OpenImage(fam, plain) ==
    TheOne({OpenBytes(fam, b) : b \in {ContainerOf(fam, plain)}})

\* The images that may be appended: a plain image and a freshly opened
\* container of two frames
AppendedImages(fam) ==
    {StoredFrame(fam, 0),
     OpenImage(fam, <<StoredFrame(fam, MaxFrames + 1), StoredFrame(fam, MaxFrames + 2)>>)}

\* The first image is a plain image or a container of 1..MaxFrames frames,
\* just opened; up to MaxAppended images are appended.
MInit ==
    /\ wfam \in Families
    /\ wversion = "010"
    /\ images \in {<<first>> \o app :
                     first \in {OpenImage(wfam, [k \in 1..n |-> StoredFrame(wfam, k)]) :
                                    n \in 1..MaxFrames} \cup {StoredFrame(wfam, 0)},
                     app \in SeqsUpTo(AppendedImages(wfam), MaxAppended)}
    /\ out = <<>>
    /\ frames = <<>>
    /\ werr = "none"
    /\ wdetail = {}
    /\ wop = "ready"
    /\ NavIdle
    /\ ReaderIdle

\* im.seek(i) on the first image, before it is saved
SeekImage(i) ==
    /\ wop = "ready"
    /\ HasFrames(images[1])
    /\ LET im == images[1]
       IN  images' = [images EXCEPT ![1].nav =
                          seek(im.family, im.stream, im.n_frames, im.nav, i)]
    /\ UNCHANGED <<wfam, wversion, out, frames, werr, wdetail, wop>>
    /\ UNCHANGED navVars
    /\ UNCHANGED readerVars

MNext ==
    \/ \E i \in Indexes : SeekImage(i)
    \/ Save
    \/ SaveAll

SpecM == MInit /\ [][MNext]_vars

----------------------------------------------------------------------------
(* Specification of a writer followed by Image.open() *)

\* the signatures _seek accepts in front of a JPEG 2000 payload
J2kSignature == <<255, 79, 255, 81>>
Jp2Signature == <<0, 0, 0, 12, 106, 80, 32, 32, 13, 10, 135, 10>>

\* "sig = self.fp.read(4) ... if codec is None: raise SyntaxError"
IsJPEG2000(b, off) ==
    \/ ReadAt(b, off, 4) = J2kSignature
    \/ ReadAt(b, off, 12) = Jp2Signature

\* The tile _seek sets for the finger frame, or the exception it raises
FIRTileError(b, algo, off) ==
    IF algo \in {"RAW", "RAW_PACKED", "WSQ", "JPEG"} THEN "none"
    ELSE IF algo \in {"JPEG2000_LOSSY", "JPEG2000_LOSSLESS"}
    THEN (IF IsJPEG2000(b, off) THEN "none" ELSE "SyntaxError: not a JPEG 2000 image")
    ELSE "SyntaxError: Unknown compression algo"

FACTileError(b, type, off) ==
    IF type = "JPEG" THEN "none"
    ELSE IF type = "JPEG2000"
    THEN (IF IsJPEG2000(b, off) THEN "none" ELSE "SyntaxError: not a JPEG 2000 image")
    ELSE "SyntaxError: Unknown image_data_type"

\* Image.open(fp) of a finger file: _open, then _seek(0).  The image shows
\* info, the header of frame 0, mode and size, and the payload from the
\* offset of the tile to the end of the frame; headers_read tells whether
\* _open came to _seek(0), which reads the header of frame 0.
FIR_open(b) ==
    TheOne({
        IF gh.err # "none" THEN [err |-> gh.err, headers_read |-> 0]
        ELSE TheOne({
                 IF r.err # "none" THEN [err |-> r.err, headers_read |-> 1]
                 ELSE LET off == FIRGeneralHeaderSize + r.nb
                          e == FIRTileError(b, r.nt.image_compression_algo.s, off)
                      IN  IF e # "none" THEN [err |-> e, headers_read |-> 1]
                          ELSE [err |-> "none",
                                headers_read |-> 1,
                                info |-> [version |-> Version020,
                                          nb_representation |-> gh.nb_repr,
                                          nb_position |-> gh.nb_pos,
                                          certification_flag |-> gh.cert_flag],
                                n_frames |-> gh.nb_repr,
                                header |-> r.nt,
                                mode |-> IF r.ns.bit_depth = 8 THEN "L" ELSE "unset",
                                size |-> <<r.ns.horizontal_line_length, r.ns.vertical_line_length>>,
                                tile |-> off,
                                payload |-> ReadAt(b, off, r.nt.length - r.nb)]
                 : r \in {FIR_read_header(b, FIRGeneralHeaderSize, gh.cert_flag)}})
        : gh \in {FIR_open_header(b)}})

\* Image.open(fp) of a face file
FAC_open(b) ==
    TheOne({
        IF gh.err # "none" THEN [err |-> gh.err, headers_read |-> 0]
        ELSE TheOne({
                 IF r.err # "none" THEN [err |-> r.err, headers_read |-> 1]
                 ELSE LET off == FACGeneralHeaderSize + r.nb
                          e == FACTileError(b, r.d.image_data_type, off)
                      IN  IF e # "none" THEN [err |-> e, headers_read |-> 1]
                          ELSE [err |-> "none",
                                headers_read |-> 1,
                                info |-> [version |-> gh.version,
                                          nb_facial_images |-> gh.nb_facial_images],
                                n_frames |-> gh.nb_facial_images,
                                header |-> r.d,
                                mode |-> r.ns.mode,
                                size |-> <<r.ns.width, r.ns.height>>,
                                tile |-> off,
                                payload |-> ReadAt(b, off, r.ns.length - r.nb)]
                 : r \in {FAC_read_header(b, FACGeneralHeaderSize)}})
        : gh \in {FAC_open_header(b)}})

OpenFile(fam, b) == IF fam = "FIR" THEN FIR_open(b) ELSE FAC_open(b)

\* a name no table lists
Unlisted == "NOT_LISTED"

\* The bytes the pixel codec returns for the one-pixel image
CodecBytes(algo) ==
    IF algo \in {"JPEG2000_LOSSY", "JPEG2000_LOSSLESS", "JPEG2000"} THEN J2kSignature \o <<0>>
    ELSE IF algo = "JPEG" THEN <<255, 216>>
    ELSE <<170>>

QualityRecords ==
    {QualityRecord, [score |-> 255, algo_vendor_id |-> <<16, 1>>, algo_id |-> <<0, 0>>]}

\* the microseconds of the capture timestamps: whole milliseconds, the two
\* ends of the range and values between
Microseconds == {0, 1, 999, 1000, 6000, 6999, 500000, 999000, 999999}

\* Finger images for the round trip: every name of every table, one field
\* at a time; the four fields given as numbers; a name no table lists in
\* each of them; every list of quality records up to MaxQualities with
\* every list of certification records up to MaxCerts; other values in the
\* remaining fields and other payloads; two dates with each of the
\* microseconds.
FIRRoundTripImages ==
    {[FIRBaseImage EXCEPT !.header.position = Name(x)] : x \in DOMAIN POSITION \cup {Unlisted}}
    \cup {[FIRBaseImage EXCEPT !.header.scale_units = Name(x)] : x \in DOMAIN UNIT \cup {Unlisted}}
    \cup {[FIRBaseImage EXCEPT !.header.image_compression_algo = Name(x),
                               !.image_data = CodecBytes(x)]
            : x \in DOMAIN COMPRESSION \cup {Unlisted}}
    \cup {[FIRBaseImage EXCEPT !.header.impression_type = Name(x)]
            : x \in DOMAIN IMPRESSION \cup {Unlisted}}
    \cup {[FIRBaseImage EXCEPT !.header.position = Code(7)],
          [FIRBaseImage EXCEPT !.header.scale_units = Code(1)],
          [FIRBaseImage EXCEPT !.header.image_compression_algo = Code(0)],
          [FIRBaseImage EXCEPT !.header.impression_type = Code(1)]}
    \cup {[FIRBaseImage EXCEPT !.header.quality_records = q,
                               !.header.certification_records = c]
            : q \in SeqsUpTo(QualityRecords, MaxQualities), c \in SeqsUpTo(CertRecords, MaxCerts)}
    \cup {[FIRBaseImage EXCEPT !.header.capture_datetime.microsecond = us] : us \in Microseconds}
    \cup {[FIRBaseImage EXCEPT !.header.capture_datetime =
                                  [year |-> 1999, month |-> 12, day |-> 31, hour |-> 23,
                                   minute |-> 59, second |-> 59, microsecond |-> us]]
            : us \in Microseconds}
    \cup {[FIRBaseImage EXCEPT !.size = <<2, 1>>, !.image_data = <<170, 85>>],
          [FIRBaseImage EXCEPT !.size = <<0, 0>>, !.image_data = <<>>],
          [FIRBaseImage EXCEPT !.header.capture_device_technology_id = <<1>>,
                               !.header.capture_device_vendor_id = <<0, 17>>,
                               !.header.capture_device_type_id = <<255, 0>>,
                               !.header.number = 2,
                               !.header.horizontal_scan_sampling_rate = 1000,
                               !.header.vertical_scan_sampling_rate = 999,
                               !.header.horizontal_image_sampling_rate = 300,
                               !.header.vertical_image_sampling_rate = 301]}

\* the face header dict(key = value)
FACWith(key, value) ==
    [FACBaseImage EXCEPT !.header.keys = {key}, !.header[key] = value]

\* The lists of flag names given as property_mask: the names of each set of
\* up to MaxFlags flags in the order of the table, two flags in the other
\* order, the four flags of the test and a list with a name that is no flag
PropertyMasks ==
    {SelectSeq(PropertyFlagNames, LAMBDA k : k \in S)
        : S \in {T \in SUBSET DOMAIN PROPERTY_FLAGS : Cardinality(T) <= MaxFlags}}
    \cup {<<"BEARD", "GLASSES">>,
          <<"GLASSES", "BEARD", "LEFT_EYE_PATCH", "DARK_GLASSES">>,
          <<"GLASSES", "HAT">>}

\* the keys that are legal for no version, and a key the schema does not know
IllegalKeys ==
    {"capture_datetime", "capture_device_technology_id", "capture_device_vendor_id",
     "capture_device_type_id", "quality_records", "subject_height", "colour"}

\* Face images for the round trip: every name of every table, one field at
\* a time, and a name no table lists; the property masks; pose angles,
\* device type, quality and landmark points; all legal fields at once; a
\* key that is not legal, alone and next to a legal one.
FACRoundTripImages ==
    {FACBaseImage}
    \cup {FACWith("gender", x) : x \in DOMAIN GENDER \cup {Unlisted}}
    \cup {FACWith("eye_colour", x) : x \in DOMAIN EYE_COLOUR \cup {Unlisted}}
    \cup {FACWith("hair_colour", x) : x \in DOMAIN HAIR_COLOUR \cup {Unlisted}}
    \cup {FACWith("expression", x) : x \in DOMAIN EXPRESSION \cup {Unlisted}}
    \cup {FACWith("face_image_type", x) : x \in DOMAIN FACE_IMAGE_TYPE \cup {Unlisted}}
    \cup {[FACWith("image_data_type", x) EXCEPT !.image_data = CodecBytes(x)]
            : x \in DOMAIN IMAGE_DATA_TYPE \cup {Unlisted}}
    \cup {FACWith("source_type", x) : x \in DOMAIN SOURCE_TYPE \cup {Unlisted}}
    \cup {FACWith("property_mask", x) : x \in PropertyMasks}
    \cup {FACWith(k, x) : k \in {"pose_yaw", "pose_pitch", "pose_roll", "pose_uncertainty_yaw",
                                 "pose_uncertainty_pitch", "pose_uncertainty_roll"},
                          x \in {-128, -1, 127}}
    \cup {FACWith("device_type", <<18, 52>>), FACWith("quality", 5)}
    \cup {FACWith("landmark_points", l) : l \in SeqsUpTo(Landmarks, MaxLandmarks)}
    \cup {[FACBaseImage EXCEPT
             !.header = [keys |-> FACDecodedKeys,
                         landmark_points |-> <<CHOOSE l \in Landmarks : l.x = 300>>,
                         gender |-> "F", eye_colour |-> "GREEN", hair_colour |-> "RED",
                         property_mask |-> <<"SPECIFIED", "BLINK">>, expression |-> "FROWNING",
                         pose_yaw |-> 10, pose_pitch |-> -20, pose_roll |-> 30,
                         pose_uncertainty_yaw |-> 1, pose_uncertainty_pitch |-> 2,
                         pose_uncertainty_roll |-> 3, face_image_type |-> "TOKEN_FRONTAL",
                         image_data_type |-> "JPEG", source_type |-> "STATIC_SCANNER",
                         device_type |-> <<0, 0>>, quality |-> 0],
             !.mode = "L"]}
    \cup {[FACBaseImage EXCEPT !.header.keys = {k}] : k \in IllegalKeys}
    \cup {[FACWith("gender", "M") EXCEPT !.header.keys = {"gender", k}] : k \in IllegalKeys}

RoundTripImages(fam) == IF fam = "FIR" THEN FIRRoundTripImages ELSE FACRoundTripImages

BaseImage(fam) == IF fam = "FIR" THEN FIRBaseImage ELSE FACBaseImage

\* the versions the face writer is asked for
Versions == {"010", "020", "030"}

\* One image, or the base image followed by one image
RInit ==
    /\ wfam \in Families
    /\ wversion \in (IF wfam = "FAC" THEN Versions ELSE {"010"})
    /\ images \in {<<im>> : im \in RoundTripImages(wfam)}
                    \cup {<<BaseImage(wfam), im>> : im \in RoundTripImages(wfam)}
    /\ out = <<>>
    /\ frames = <<>>
    /\ werr = "none"
    /\ wdetail = {}
    /\ wop = "ready"
    /\ NavIdle
    /\ ReaderIdle

\* PIL.Image.open(fp) of the file the writer has written
Open ==
    /\ wop \in {"save", "save_all"}
    /\ werr = "none"
    /\ opened = NotOpened
    /\ file' = out
    /\ opened' = OpenFile(wfam, out)
    /\ UNCHANGED rewritten
    /\ UNCHANGED writerVars
    /\ UNCHANGED navVars

\* The offsets, in the file written for the base image, of the bytes of the
\* enumerated fields and of the property mask
FieldOffsets(fam) ==
    IF fam = "FIR" THEN {35, 37, 47, 48}
    ELSE {20, 21, 22, 23, 24, 25, 26, 27, 34, 35, 40, 41}

Bytes == 0..255

\* PIL.Image.open(fp) of a file that is the one written for the base image
\* but for the byte at offset off, which is val
OpenAltered(off, val) ==
    /\ wop = "save"
    /\ werr = "none"
    /\ opened = NotOpened
    /\ images = <<BaseImage(wfam)>>
    /\ wversion = "010"
    /\ out[off + 1] # val
    /\ file' = [out EXCEPT ![off + 1] = val]
    /\ opened' = OpenFile(wfam, file')
    /\ UNCHANGED rewritten
    /\ UNCHANGED writerVars
    /\ UNCHANGED navVars

\* What is put in the place of the magic and of the version tag: the two
\* magics, the three version tags, and tags that are neither
Magics == {MagicFIR, MagicFAC, <<70, 73, 82, 1>>, <<0, 0, 0, 0>>}
VersionTags == {Version010, Version020, Version030, <<48, 52, 48, 0>>, <<48, 50, 48, 1>>}

\* What follows the frame count in the general header: nothing, or the
\* certification flag and the temporal semantics that _open unpacks for
\* version 030 (">IH?H") before it sets the first offset to 17
GeneralHeaderTails == {<<>>, <<0, 0, 0>>}

\* The container b with another magic and version tag, and with tail after
\* the general header, counted in the total length
Reheaded(fam, b, magic, tag, tail) ==
    magic \o tag \o BE(UInt(b, 8, 4) + Len(tail), 4)
          \o SubSeq(b, 13, FirstOffset(fam)) \o tail
          \o SubSeq(b, FirstOffset(fam) + 1, Len(b))

\* PIL.Image.open(fp) of the container written, given another magic and
\* version tag; the tail is there for version 030 of the face family only
OpenReheaded(magic, tag, tail) ==
    /\ wop \in {"save", "save_all"}
    /\ werr = "none"
    /\ opened = NotOpened
    /\ wfam = "FAC" => wversion = "010"
    /\ tail # <<>> => (wfam = "FAC" /\ tag = Version030)
    /\ file' = Reheaded(wfam, out, magic, tag, tail)
    /\ file' # out
    /\ opened' = OpenFile(wfam, file')
    /\ UNCHANGED rewritten
    /\ UNCHANGED writerVars
    /\ UNCHANGED navVars

\* im = Image.open(fp); im.save(fp2, format, save_all=True): the multi-frame
\* writer on the image opened, the version being the one in im.info
Rewrite ==
    /\ opened # NotOpened
    /\ opened.err = "none"
    /\ rewritten = NotRewritten
    /\ rewritten' \in
          {[err |-> r.err, out |-> r.out, frames |-> r.frames] :
              r \in {IF wfam = "FIR" THEN FIR_save_all(<<OpenBytes("FIR", file)>>)
                     ELSE FAC_save_all(<<OpenBytes("FAC", file)>>, opened.info.version)}}
    /\ UNCHANGED <<file, opened>>
    /\ UNCHANGED writerVars
    /\ UNCHANGED navVars

RNext ==
    \/ Rewrite
    \/ Save
    \/ SaveAll
    \/ Open
    \/ \E off \in FieldOffsets(wfam), val \in Bytes : OpenAltered(off, val)
    \/ \E magic \in Magics, tag \in VersionTags, tail \in GeneralHeaderTails :
          OpenReheaded(magic, tag, tail)

SpecR == RInit /\ [][RNext]_vars

----------------------------------------------------------------------------
(* Properties of the navigator, checked under Spec *)

WellFormed == n_frames = Len(stream)

InRange(i) == 0 <= i /\ i < n_frames

\* C1: a seek to an index i < 0 or i >= n_frames raises EOFError from every
\* reachable state and leaves the position, the exposed header, the resolved
\* offsets and the cached headers as they were.
C1_OutOfRangeSeekFails ==
    [][\A i \in SeekArgs :
          ((i < 0 \/ i >= n_frames) /\ Seek(i))
             => /\ err' = "EOFError"
                /\ frame' = frame
                /\ header' = header
                /\ frame_pos' = frame_pos
                /\ rheaders' = rheaders]_vars

\* C1 witness: after earlier moves and a caller's replacement of the header
\* of a later frame, a seek outside the sequence has been refused.
C1_Witness ==
    /\ lastOp = "seek"
    /\ err = "EOFError"
    /\ Len(frame_pos) >= 2
    /\ frame >= 1
    /\ ~shared

\* C2: over a well-formed container a seek to any index in [0, n_frames)
\* succeeds and leaves the navigator positioned there, also when frames
\* between the last resolved one and the target are still unresolved.
C2_InRangeSeekSucceeds ==
    [][\A i \in SeekArgs :
          (WellFormed /\ InRange(i) /\ Seek(i)) => (err' = "none" /\ frame' = i)]_vars

\* C3: after successful moves only (no caller edit, no failed move) over a
\* well-formed container, every resolved index k is cached at the offset of
\* the k-th frame of the file, and the exposed header is the one of the
\* frame at the current position.
C3_ResolvedOffsetsMatchStream ==
    (WellFormed /\ edits = 0 /\ ~failed)
        => /\ \A k \in 0..(Len(frame_pos) - 1) :
                  frame_pos[k + 1] = FrameOffset(family, stream, k)
           /\ header.id = frame

C5_ResolvedSeekReadsTargetOnly ==
    [][\A i \in SeekArgs :
          (edits = 0 /\ InRange(i) /\ i # frame /\ i < Len(frame_pos) /\ Seek(i))
             => /\ err' = "none"
                /\ frame_pos' = frame_pos
                /\ reads' = <<FrameOffset(family, stream, i)>>]_vars

\* C6 as stated: after open the position is 0 and in every reachable state
\* 0 <= tell() < n_frames.
C6_PositionInRange ==
    /\ lastOp = "open" => frame = 0
    /\ 0 <= frame /\ frame < n_frames

\* C6 amended: after open the position is 0; when the general header
\* declares at least one frame, 0 <= tell() < n_frames in every reachable
\* state.
C6_PositionInDeclaredRange ==
    /\ lastOp = "open" => (frame = 0 /\ err = "none" /\ header.src = "stream")
    /\ n_frames >= 1 => (0 <= frame /\ frame < n_frames)

\* C6 witness: positioned on the last declared frame of a container of three
\* frames or more, a seek outside the sequence has just been refused.
C6_Witness ==
    /\ n_frames >= 3
    /\ frame = n_frames - 1
    /\ lastOp = "seek"
    /\ err = "EOFError"

\* the header stored in the stream at off, h where none is stored
StoredHeader(off, h) ==
    LET r == read_header(family, stream, off) IN IF r.ok THEN r.hdr ELSE h

\* The navigator state s with the exposed header and every cached header
\* replaced by the header stored at the offset resolved for its index
WithStoredHeaders(s) ==
    [s EXCEPT !.rheaders = [k \in 1..Len(s.rheaders) |->
                               IF k <= Len(s.frame_pos)
                               THEN StoredHeader(s.frame_pos[k], s.rheaders[k])
                               ELSE s.rheaders[k]],
              !.header = IF 0 <= s.frame /\ s.frame < Len(s.frame_pos)
                         THEN StoredHeader(s.frame_pos[s.frame + 1], s.header)
                         ELSE s.header]

\* C26: in the finger family the offsets resolved and the pointer to the
\* next frame depend on the lengths stored in the stream only: every move
\* resolves the same offsets and leaves the same next pointer as it would if
\* the exposed header and the cached headers were the ones stored, whatever
\* the length of the headers the caller has put in their place.
C26_OffsetsFromStreamOnly ==
    [][\A i \in SeekArgs :
          (family = "FIR" /\ Seek(i))
             => LET t == seek(family, stream, n_frames, WithStoredHeaders(Nav), i)
                IN  /\ frame_pos' = t.frame_pos
                    /\ next' = t.next]_vars

\* p is a prefix of q
IsPrefix(p, q) == Len(p) <= Len(q) /\ SubSeq(q, 1, Len(p)) = p

\* C27: across every move, whether it returns or raises, the list of
\* resolved offsets it finds is a prefix of the list it leaves, no cached
\* header is dropped, and the only cached header that changes is the one at
\* the index of the frame being left.
C27_CacheOnlyGrows ==
    [][\A i \in SeekArgs :
          Seek(i)
             => /\ IsPrefix(frame_pos, frame_pos')
                /\ Len(rheaders) <= Len(rheaders')
                /\ \A k \in 1..Len(rheaders) :
                       k # frame + 1 => rheaders'[k] = rheaders[k]]_vars

\* C27 witness: a move has resolved the third frame while the cache holds,
\* at the index of a frame left earlier, the header the caller gave there
C27_Witness ==
    /\ lastOp = "seek"
    /\ Len(frame_pos) = 3
    /\ Len(rheaders) = 3
    /\ frame = 2
    /\ \E k \in 1..2 : rheaders[k].src = "caller"

----------------------------------------------------------------------------
(* Properties of the navigator, checked under SpecD *)

\* C28: a move to an index in range that raises leaves the navigator as it
\* was: position, exposed header, mode and size are unchanged, and the list
\* of resolved offsets and the list of cached headers keep their length.
C28_FailedMoveLeavesNavigator ==
    [][\A i \in SeekArgs :
          (InRange(i) /\ Seek(i) /\ err' # "none")
             => /\ frame' = frame
                /\ header' = header
                /\ im_mode' = im_mode
                /\ im_size' = im_size
                /\ Len(frame_pos') = Len(frame_pos)
                /\ Len(rheaders') = Len(rheaders)]_vars

\* C29: after every move to frame i that returns, the mode and the size
\* exposed are those the header of frame i declares, whatever frames were
\* current before.
C29_ModeAndSizeOfCurrentFrame ==
    (lastOp = "seek" /\ err = "none" /\ reads # <<>>) =>
       /\ im_mode = stream[frame + 1].mode
       /\ im_size = stream[frame + 1].size

----------------------------------------------------------------------------
(* Properties of the writers, checked under SpecW *)

\* the images a finished save() had to write
Written == IF wop = "save" THEN <<images[1]>> ELSE images

Saved == wop \in {"save", "save_all"} /\ werr = "none"

RECURSIVE SumFields(_, _)
SumFields(b, starts) ==
    IF starts = <<>> THEN 0 ELSE UInt(b, Head(starts), 4) + SumFields(b, Tail(starts))

\* C7: in a finger container and in a face container of version 010, from
\* the single-frame or the multi-frame writer, the total length of the
\* general header is the size of the general header plus the sum of the
\* frames' length fields, and the length field of each frame is the number
\* of bytes written for that frame: the 4 bytes of the field, the bytes of
\* the header and the bytes of the payload, which end the frame.
C7_LengthFieldsConsistent ==
    (Saved /\ (wfam = "FIR" \/ wversion = "010")) =>
        LET n == Len(Written)
            st == FrameStarts(out, FirstOffset(wfam), n)
        IN  /\ UInt(out, 12, 2) = n
            /\ Len(st) = n
            /\ Len(frames) = n
            /\ UInt(out, 8, 4) = FirstOffset(wfam) + SumFields(out, st)
            /\ UInt(out, 8, 4) = Len(out)
            /\ out = Sub(out, 0, FirstOffset(wfam)) \o Concat(frames)
            /\ \A k \in 1..n :
                LET field == UInt(out, st[k], 4)
                    payload == Written[k].image_data
                IN  /\ field = Len(frames[k])
                    /\ st[k] + field <= Len(out)
                    /\ Sub(out, st[k], field) = frames[k]
                    /\ field >= 4 + Len(payload)
                    /\ Sub(out, st[k] + field - Len(payload), Len(payload)) = payload
                    /\ st[k] + field = (IF k = n THEN Len(out) ELSE st[k + 1])

C7_Witness ==
    /\ Saved
    /\ wop = "save_all"
    /\ wfam = "FIR"
    /\ Len(images) >= 2
    /\ Len(frames) = Len(images)
    /\ Len(frames[1]) # Len(frames[2])
    /\ images[2].header.certification_records # <<>>
    /\ images[2].header.quality_records # <<>>

\* C8: a finger container of one frame without quality record and without
\* certification record has a frame header of 41 bytes, length field
\* included, after the 16 bytes of the general header, and the byte at
\* offset 14 is 0; with k >= 1 certification records on the same frame the
\* total length grows by 1 + 3k bytes and the byte at offset 14 is 1.
C8_CertificationRecordsSize ==
    (Saved /\ wfam = "FIR" /\ Len(Written) = 1 /\ Written[1].header.quality_records = <<>>) =>
        LET im == Written[1]
            k == Len(im.header.certification_records)
            payload == Len(im.image_data)
            bare == FIR_save([im EXCEPT !.header.certification_records = <<>>]).out
        IN  /\ k = 0 =>
                /\ out[15] = 0
                /\ UInt(out, 16, 4) - payload = 41
                /\ UInt(out, 8, 4) = 16 + 41 + payload
                /\ Len(out) = 16 + 41 + payload
            /\ k >= 1 =>
                /\ out[15] = 1
                /\ bare[15] = 0
                /\ UInt(out, 8, 4) = UInt(bare, 8, 4) + 1 + 3 * k
                /\ Len(out) = Len(bare) + 1 + 3 * k
                /\ Len(out) = 16 + 41 + payload + 1 + 3 * k

C8_Witness ==
    /\ Saved
    /\ wop = "save"
    /\ wfam = "FIR"
    /\ images[1].header.quality_records = <<>>
    /\ Len(images[1].header.certification_records) = 2
    /\ out[15] = 1

\* C9: the certification flag the multi-frame finger writer writes is set
\* exactly when some frame has a non-empty certification list, and each
\* frame decoded from the written container has the certification records
\* of the frame given to the writer, in the same order: no record for a
\* frame given none, whatever the other frames have.
C9_CertificationRoundTrip ==
    (Saved /\ wfam = "FIR" /\ wop = "save_all") =>
        LET gh == FIR_open_header(out)
        IN  /\ gh.err = "none"
            /\ gh.cert_flag = (\E k \in 1..Len(images) :
                                   Len(images[k].header.certification_records) > 0)
            /\ (out[15] = 1) = gh.cert_flag
            /\ LET frs == FIRWalk(out, FIRGeneralHeaderSize, gh.nb_repr, gh.cert_flag)
               IN  /\ Len(frs) = Len(images)
                   /\ \A k \in 1..Len(images) :
                        /\ frs[k].err = "none"
                        /\ frs[k].nt.certification_records
                               = images[k].header.certification_records

C9_Witness ==
    /\ Saved
    /\ wfam = "FIR"
    /\ wop = "save_all"
    /\ Len(images) >= 2
    /\ images[1].header.certification_records = <<>>
    /\ Len(images[2].header.certification_records) = 2
    /\ images[2].header.certification_records[1] # images[2].header.certification_records[2]
    /\ FIR_open_header(out).cert_flag

\* C10: the position count the multi-frame finger writer writes is the
\* number of different positions of the frames, a position given by its
\* name and the same position given by its code being one position.
C10_PositionCount ==
    (Saved /\ wfam = "FIR" /\ wop = "save_all") =>
        out[16] = Cardinality({ToWire(POSITION, images[k].header.position) : k \in 1..Len(images)})

----------------------------------------------------------------------------
(* Properties of the writers given opened images, checked under SpecM *)

\* the frames of the images in input order: those of a container in index
\* order, a plain image for itself
RECURSIVE InputFrames(_)
InputFrames(ims) ==
    IF ims = <<>> THEN <<>>
    ELSE (IF HasFrames(Head(ims)) THEN SubSeq(Head(ims).stored, 1, Head(ims).n_frames)
          ELSE <<Head(ims)>>) \o InputFrames(Tail(ims))

\* C11: the multi-frame writer writes as frame count the number of frames
\* of all the images given, n for an image opened from a container of n
\* frames and 1 for a plain image, and writes after the general header the
\* frames in input order: those of the first image in index order, then
\* those of each appended image.
C11_FramesInInputOrder ==
    (Saved /\ wop = "save_all") =>
        LET exp == InputFrames(images)
            st == FrameStarts(out, FirstOffset(wfam), Len(exp))
        IN  /\ UInt(out, 12, 2) = Len(exp)
            /\ Len(st) = Len(exp)
            /\ \A k \in 1..Len(exp) :
                LET field == UInt(out, st[k], 4)
                    payload == exp[k].image_data
                IN  /\ st[k] + field <= Len(out)
                    /\ field >= 4 + Len(payload)
                    /\ Sub(out, st[k] + field - Len(payload), Len(payload)) = payload

----------------------------------------------------------------------------
(* The multi-frame writer against the single-frame writer, under SpecW *)

\* The frame bytes the single-frame writer writes for the image alone
SingleFrame(fam, im, version) ==
    IF fam = "FIR" THEN FIR_save(im).frames[1] ELSE FAC_save(im, version).frames[1]

\* A finger frame written without certification block, given the count byte
\* of an empty block: after the nq quality records, the length field one more
WithEmptyCertBlock(single, nq) ==
    LET at == 4 + 15 + 5 * nq
    IN  BE(Len(single) + 1, 4) \o Sub(single, 4, at - 4) \o <<0>>
            \o Sub(single, at, Len(single) - at)

\* frame k of the finger images has no certification record while another
\* frame has some
LoneWithoutCertification(ims, k) ==
    /\ wfam = "FIR"
    /\ ims[k].header.certification_records = <<>>
    /\ \E j \in 1..Len(ims) : ims[j].header.certification_records # <<>>

\* C12 as stated: each frame of the output of the multi-frame writer is
\* byte for byte the frame the single-frame writer writes for that source
\* frame alone.
C12_FramesByteIdentical ==
    (Saved /\ wop = "save_all") =>
        /\ Len(frames) = Len(images)
        /\ \A k \in 1..Len(images) : frames[k] = SingleFrame(wfam, images[k], wversion)

\* C12 amended: the multi-frame writer writes one frame per source frame,
\* the frame count being their number and the frames following the general
\* header back to back; each frame is byte for byte the one the
\* single-frame writer writes for that source frame alone, unless the frame
\* is a finger frame without certification record written together with a
\* frame that has some: it then carries in addition the count byte 0 of an
\* empty certification block, and its length field is one more.
C12_FramesAsSingleFrames ==
    (Saved /\ wop = "save_all") =>
        /\ Len(frames) = Len(images)
        /\ UInt(out, 12, 2) = Len(images)
        /\ Sub(out, FirstOffset(wfam), Len(out) - FirstOffset(wfam)) = Concat(frames)
        /\ \A k \in 1..Len(images) :
              LET single == SingleFrame(wfam, images[k], wversion)
              IN  IF LoneWithoutCertification(images, k)
                  THEN frames[k] =
                         WithEmptyCertBlock(single, Len(images[k].header.quality_records))
                  ELSE frames[k] = single

\* C12 witness: a finger frame with a quality record and no certification
\* record has been written before a frame with certification records, one
\* byte longer than the single-frame writer writes it.
C12_Witness ==
    /\ Saved
    /\ wop = "save_all"
    /\ wfam = "FIR"
    /\ Len(images) = 2
    /\ images[1].header.certification_records = <<>>
    /\ images[1].header.quality_records # <<>>
    /\ images[2].header.certification_records # <<>>
    /\ Len(frames[1]) = Len(SingleFrame("FIR", images[1], wversion)) + 1
    /\ frames[2] = SingleFrame("FIR", images[2], wversion)

----------------------------------------------------------------------------
(* Round trips and enumerated fields, checked under SpecR *)

\* save() or save(save_all=True) of one plain image has run
SavedOne == wop \in {"save", "save_all"} /\ Len(images) = 1

\* Image.open() has run on the file just as it was written
Reopened == opened # NotOpened /\ file = out

FIREnumerated(h) ==
    <<<<POSITION, h.position>>, <<UNIT, h.scale_units>>,
      <<COMPRESSION, h.image_compression_algo>>, <<IMPRESSION, h.impression_type>>>>

\* every enumerated field of the finger header holds a name of its table
ValidFIRHeader(h) ==
    \A k \in 1..4 : FIREnumerated(h)[k][2].t = "str"
                    /\ FIREnumerated(h)[k][2].s \in DOMAIN FIREnumerated(h)[k][1]

\* C13: for a finger header whose enumerated fields hold names of their
\* tables, with any lists of quality and certification records, and any
\* payload, the writer writes a container, and opening it gives the payload
\* bytes as the payload range and a header equal to the one given in every
\* field but the capture timestamp, the length being the length of the
\* frame written; the records come back in the same order and number.
C13_FIRRoundTrip ==
    (wfam = "FIR" /\ SavedOne /\ ValidFIRHeader(images[1].header)) =>
        /\ werr = "none"
        /\ Reopened =>
              /\ opened.err = "none"
              /\ opened.payload = images[1].image_data
              /\ opened.header =
                    [images[1].header EXCEPT !.length = Len(frames[1]),
                                             !.capture_datetime = opened.header.capture_datetime]

FACTables ==
    [gender |-> GENDER, eye_colour |-> EYE_COLOUR, hair_colour |-> HAIR_COLOUR,
     expression |-> EXPRESSION, face_image_type |-> FACE_IMAGE_TYPE,
     image_data_type |-> IMAGE_DATA_TYPE, source_type |-> SOURCE_TYPE]

\* A name of the table in every enumerated field given, flags of the table
\* in the property mask
ValidFACValues(h) ==
    /\ \A k \in h.keys \cap DOMAIN FACTables : h[k] \in DOMAIN FACTables[k]
    /\ "property_mask" \in h.keys =>
          \A j \in 1..Len(h.property_mask) : h.property_mask[j] \in DOMAIN PROPERTY_FLAGS

\* what the caller gave for the key, the property mask as a set of flags
Supplied(h, k) ==
    IF k = "property_mask" THEN {h.property_mask[j] : j \in 1..Len(h.property_mask)} ELSE h[k]

\* C14: for a face header made of keys legal for version 010 only, the
\* writer writes a container, and opening it gives every field the caller
\* supplied with the value supplied (the landmark points in order, the
\* device type and the quality among them) and every field omitted with
\* the default the writer takes for it.
C14_FACRoundTrip ==
    (/\ wfam = "FAC" /\ wversion = "010" /\ SavedOne
     /\ FACIllegalKeys(images[1].header, "010") = {}
     /\ ValidFACValues(images[1].header)) =>
        /\ werr = "none"
        /\ Reopened =>
              /\ opened.err = "none"
              /\ \A k \in FACDecodedKeys :
                    Supplied(opened.header, k)
                        = Supplied(IF k \in images[1].header.keys THEN images[1].header
                                   ELSE FACBaseHeader, k)

\* the enumeration tables of both families
EnumerationTables ==
    {POSITION, UNIT, COMPRESSION, IMPRESSION, GENDER, EYE_COLOUR, HAIR_COLOUR, EXPRESSION,
     FACE_IMAGE_TYPE, IMAGE_DATA_TYPE, SOURCE_TYPE}

\* The enumerated fields in the file written for the base image: offset,
\* width, table and name in the header
EnumeratedFields(fam) ==
    IF fam = "FIR"
    THEN {[off |-> 35, w |-> 1, table |-> POSITION, key |-> "position"],
          [off |-> 37, w |-> 1, table |-> UNIT, key |-> "scale_units"],
          [off |-> 47, w |-> 1, table |-> COMPRESSION, key |-> "image_compression_algo"],
          [off |-> 48, w |-> 1, table |-> IMPRESSION, key |-> "impression_type"]}
    ELSE {[off |-> 20, w |-> 1, table |-> GENDER, key |-> "gender"],
          [off |-> 21, w |-> 1, table |-> EYE_COLOUR, key |-> "eye_colour"],
          [off |-> 22, w |-> 1, table |-> HAIR_COLOUR, key |-> "hair_colour"],
          [off |-> 26, w |-> 2, table |-> EXPRESSION, key |-> "expression"],
          [off |-> 34, w |-> 1, table |-> FACE_IMAGE_TYPE, key |-> "face_image_type"],
          [off |-> 35, w |-> 1, table |-> IMAGE_DATA_TYPE, key |-> "image_data_type"],
          [off |-> 41, w |-> 1, table |-> SOURCE_TYPE, key |-> "source_type"]}

\* the name a decoded header holds in an enumerated field
DecodedName(fam, h, key) == IF fam = "FIR" THEN h[key].s ELSE h[key]

\* Image.open() has run on a file that holds the frame of the base image
\* with one byte altered after the magic and the version tag
OpenedAltered ==
    /\ opened # NotOpened
    /\ file # out
    /\ Len(file) = Len(out)
    /\ ReadAt(file, 0, 8) = ReadAt(out, 0, 8)

\* C15: in every enumeration table of both families no two names share a
\* code and the name read for the code written for a name is that name; a
\* frame written with a name in an enumerated field is decoded with that
\* name in the field; and a frame whose enumerated field holds a code that
\* is not in the table is not decoded: Image.open() raises KeyError.
C15_EnumerationRoundTrip ==
    /\ \A t \in EnumerationTables :
          /\ \A x, y \in DOMAIN t : t[x] = t[y] => x = y
          /\ \A x \in DOMAIN t : FromWire(t, t[x]) = x
    /\ (SavedOne /\ Reopened /\ wversion = "010" /\ werr = "none" /\ opened.err = "none") =>
          LET h == images[1].header
          IN  \A f \in EnumeratedFields(wfam) :
                 \/ wfam = "FIR" /\ h[f.key].t = "int"
                 \/ DecodedName(wfam, opened.header, f.key) = DecodedName(wfam, h, f.key)
    /\ OpenedAltered =>
          \A f \in EnumeratedFields(wfam) :
             (\A x \in DOMAIN f.table : f.table[x] # UInt(file, f.off, f.w))
                 => opened.err = "KeyError"

\* C15 witness: a face file whose two-byte expression field holds a code
\* above those of the table has been refused by Image.open().
C15_Witness ==
    /\ wfam = "FAC"
    /\ OpenedAltered
    /\ UInt(file, 26, 2) > 255
    /\ UInt(file, 20, 1) = UInt(out, 20, 1)
    /\ opened.err = "KeyError"

\* the names the caller gave as property_mask
GivenFlags(h) == {h.property_mask[j] : j \in 1..Len(h.property_mask)}

\* the bit of value v (a power of two) is set in m
BitSet(m, v) == (m \div v) % 2 = 1

\* C16: the version 010 face writer writes, at the offsets 23..25 of the
\* file, the property mask as a 3-byte big-endian integer whose bits are
\* those of the flags named in the caller's list and no other: GLASSES
\* alone gives 00 00 02, and GLASSES, BEARD, LEFT_EYE_PATCH, DARK_GLASSES
\* give 00 02 8A.
C16_PropertyMaskBytes ==
    (wfam = "FAC" /\ wversion = "010" /\ SavedOne /\ werr = "none") =>
        LET S == GivenFlags(images[1].header)
            m == UInt(out, 23, 3)
        IN  /\ \A k \in DOMAIN PROPERTY_FLAGS : BitSet(m, PROPERTY_FLAGS[k]) <=> k \in S
            /\ m < 2048
            /\ S = {"GLASSES"} => Sub(out, 23, 3) = <<0, 0, 2>>
            /\ S = {"GLASSES", "BEARD", "LEFT_EYE_PATCH", "DARK_GLASSES"}
                  => Sub(out, 23, 3) = <<0, 2, 138>>

\* C16 witness: the four flags of the test have been written.
C16_Witness ==
    /\ wfam = "FAC" /\ wversion = "010" /\ SavedOne /\ werr = "none"
    /\ wop = "save"
    /\ images[1].header.property_mask = <<"GLASSES", "BEARD", "LEFT_EYE_PATCH", "DARK_GLASSES">>
    /\ Sub(out, 23, 3) = <<0, 2, 138>>

\* C17: a face frame whose property mask has a bit set that is the bit of
\* no flag of PROPERTY_FLAGS (the flags take the bits of 1 .. 1024) is not
\* decoded: Image.open() raises.
C17_UnknownMaskBitRejected ==
    (wfam = "FAC" /\ OpenedAltered /\ UInt(file, 23, 3) >= 2048) => opened.err # "none"

\* some enumerated field of the header holds a name that is not in the
\* table of the field, or the property mask a name that is no flag
HasUnknownName(fam, h) ==
    IF fam = "FIR"
    THEN \E k \in 1..4 : /\ FIREnumerated(h)[k][2].t = "str"
                         /\ FIREnumerated(h)[k][2].s \notin DOMAIN FIREnumerated(h)[k][1]
    ELSE ~ValidFACValues(h)

\* C18: a writer given a header with a name that is not in the table of
\* its field, a name of property_mask that is no flag included, raises and
\* writes nothing.
C18_UnknownNameRejected ==
    (/\ wop \in {"save", "save_all"}
     /\ \E k \in 1..Len(Written) : HasUnknownName(wfam, Written[k].header)) =>
        /\ werr # "none"
        /\ out = <<>>

\* the finger header with the name of its code in each field given as a number
AsNames(h) ==
    [h EXCEPT !.position = IF @.t = "int" THEN Name(FromWire(POSITION, @.n)) ELSE @,
              !.scale_units = IF @.t = "int" THEN Name(FromWire(UNIT, @.n)) ELSE @,
              !.image_compression_algo =
                  IF @.t = "int" THEN Name(FromWire(COMPRESSION, @.n)) ELSE @,
              !.impression_type = IF @.t = "int" THEN Name(FromWire(IMPRESSION, @.n)) ELSE @]

\* C19: a finger frame whose position, scale_units, image_compression_algo
\* or impression_type is given as the numeric code of a name is written,
\* with the bytes written when the name is given.
C19_NumericCodesAccepted ==
    (wfam = "FIR" /\ SavedOne /\ \A k \in 1..4 : Known(FIREnumerated(images[1].header)[k][1],
                                                      FIREnumerated(images[1].header)[k][2])) =>
        LET named == FIR_save([images[1] EXCEPT !.header = AsNames(@)])
        IN  named.err = "none" => (werr = "none" /\ out = named.out)

\* the keys of the header that the schema does not list, or lists without
\* the version
Offending(h, version) ==
    {k \in h.keys : k \notin DOMAIN FACRepresentationHeaderInfo
                    \/ version \notin FACRepresentationHeaderInfo[k]}

\* C20: a face writer asked for a version and given a frame whose header
\* has a key that is not legal for the version raises SyntaxError, the
\* message naming the keys of that frame that are not legal, and writes no
\* byte; for version 010 the keys capture_datetime, capture_device_*_id,
\* quality_records, subject_height and the keys the schema does not know are
\* such keys.
C20_IllegalKeysRejected ==
    /\ \A k \in IllegalKeys : Offending([keys |-> {k}], "010") = {k}
    /\ (/\ wfam = "FAC" /\ wop \in {"save", "save_all"}
        /\ \E k \in 1..Len(Written) : Offending(Written[k].header, wversion) # {}) =>
          LET first == CHOOSE k \in 1..Len(Written) :
                          /\ Offending(Written[k].header, wversion) # {}
                          /\ \A j \in 1..(k - 1) : Offending(Written[j].header, wversion) = {}
          IN  /\ werr = "SyntaxError"
              /\ wdetail = Offending(Written[first].header, wversion)
              /\ out = <<>>

\* C20 witness: the multi-frame writer has refused for version 010 a second
\* frame that has the key subject_height next to a legal key.
C20_Witness ==
    /\ wfam = "FAC" /\ wversion = "010"
    /\ wop = "save_all"
    /\ Len(images) = 2
    /\ images[2].header.keys = {"gender", "subject_height"}
    /\ werr = "SyntaxError"
    /\ wdetail = {"subject_height"}
    /\ out = <<>>

----------------------------------------------------------------------------
(* The general header at open, checked under SpecR *)

FamilyMagic(fam) == IF fam = "FIR" THEN MagicFIR ELSE MagicFAC

\* the version tags the version test of _open lets through
SupportedVersions(fam) ==
    IF fam = "FIR" THEN {Version020} ELSE {Version010, Version020, Version030}

NotThisFormat(fam) ==
    IF fam = "FIR" THEN "SyntaxError: not a ISO19794-4 file"
    ELSE "SyntaxError: not a ISO19794-5 file"

\* C21: a file whose first four bytes are not the magic of the family is
\* rejected with the not-this-format error whatever its version tag; a file
\* with the magic and a version tag that is not supported is rejected with
\* another error, the one for the version; in both cases no frame header is
\* read.
C21_MagicCheckedFirst ==
    opened # NotOpened =>
       /\ ReadAt(file, 0, 4) # FamilyMagic(wfam) =>
             /\ opened.err = NotThisFormat(wfam)
             /\ opened.headers_read = 0
       /\ (ReadAt(file, 0, 4) = FamilyMagic(wfam)
              /\ ReadAt(file, 4, 4) \notin SupportedVersions(wfam)) =>
             /\ opened.err = "SyntaxError: Invalid version"
             /\ opened.err # NotThisFormat(wfam)
             /\ opened.headers_read = 0

\* a finger file with the magic of the face family and the supported version
\* tag has been opened
C21_Witness ==
    /\ wfam = "FIR"
    /\ opened # NotOpened
    /\ ReadAt(file, 0, 4) = MagicFAC
    /\ ReadAt(file, 4, 4) = Version020
    /\ opened.err = NotThisFormat("FIR")
    /\ opened.headers_read = 0

\* the general header tail that goes with a version tag
TailOf(tag) == IF tag = Version030 THEN <<0, 0, 0>> ELSE <<>>

\* the face container written, under one of the three version tags, has
\* been given to Image.open()
OpenedFace(tag) ==
    /\ wfam = "FAC"
    /\ opened # NotOpened
    /\ file = Reheaded("FAC", out, MagicFAC, tag, TailOf(tag))

\* C22: opening a well-formed face container succeeds for each of the
\* version tags 010, 020 and 030: nb_facial_images is the frame count and
\* the navigator is at frame 0 with the header of that frame decoded.
C22_FaceVersionsOpen ==
    \A tag \in SupportedVersions("FAC") :
        OpenedFace(tag) =>
           /\ opened.err = "none"
           /\ opened.info.nb_facial_images = Len(frames)
           /\ opened.n_frames = Len(frames)
           /\ opened.header = FAC_read_header(out, FACGeneralHeaderSize).d

----------------------------------------------------------------------------
(* The general header written by the face writers, checked under SpecR *)

VersionTag(version) ==
    IF version = "010" THEN Version010 ELSE IF version = "020" THEN Version020 ELSE Version030

\* every frame the writer was given can be encoded for the version
Encodable ==
    \A k \in 1..Len(Written) : FAC_save_frame(Written[k], wversion).err = "none"

\* C23: for version 010 and for version 030 (the version taken when none is
\* given), the single-frame and the multi-frame face writer emit the magic,
\* the version tag, the total length and the frame count, then the frames.
C23_GeneralHeaderWritten ==
    (wfam = "FAC" /\ wop \in {"save", "save_all"} /\ wversion \in {"010", "030"} /\ Encodable) =>
       /\ werr = "none"
       /\ Len(out) >= FACGeneralHeaderSize
       /\ Sub(out, 0, 4) = MagicFAC
       /\ Sub(out, 4, 4) = VersionTag(wversion)
       /\ UInt(out, 8, 4) = Len(out)
       /\ UInt(out, 12, 2) = Len(frames)
       /\ Len(out) >= SumLen(frames)
       /\ Sub(out, Len(out) - SumLen(frames), SumLen(frames)) = Concat(frames)

\* C24: when the single-frame or the multi-frame writer fails, whatever the
\* reason, no byte has been written to the output.
C24_NoPartialWrite ==
    (wop \in {"save", "save_all"} /\ werr # "none") => out = <<>>

----------------------------------------------------------------------------
(* Decoding, then encoding what was decoded, checked under SpecR *)

\* the headers of the frames of the container b, as read_header decodes them
DecodedHeaders(fam, b) ==
    LET d == DecodedFrames(fam, b) IN [k \in 1..Len(d) |-> d[k].header]

\* C25: the multi-frame writer accepts the headers decode returned: writing
\* the frames of a container just opened raises nothing and gives a
\* container with as many frames, which decode to the same headers.
C25_DecodedHeaderReencoded ==
    rewritten # NotRewritten =>
       /\ rewritten.err = "none"
       /\ UInt(rewritten.out, 12, 2) = UInt(file, 12, 2)
       /\ Len(rewritten.frames) = opened.n_frames
       /\ DecodedHeaders(wfam, rewritten.out) = DecodedHeaders(wfam, file)

----------------------------------------------------------------------------
(* The capture timestamp of a finger frame, checked under SpecR *)

\* the timestamp with its microseconds cut to whole milliseconds
WholeMilliseconds(dt) == [dt EXCEPT !.microsecond = (dt.microsecond \div 1000) * 1000]

\* the sub-second field of the first frame: after the length of the frame
\* and year, month, day, hour, minute, second
SubSecondField(b) == UInt(b, FIRGeneralHeaderSize + 4 + 7, 2)

\* C30: the sub-second field written for a finger frame is the millisecond
\* count of its capture timestamp, in 0..999, and the timestamp decoded from
\* the container written is the original cut to whole milliseconds.
C30_TimestampRoundTrip ==
    (wfam = "FIR" /\ SavedOne /\ werr = "none") =>
        LET dt == images[1].header.capture_datetime
        IN  /\ SubSecondField(out) = dt.microsecond \div 1000
            /\ SubSecondField(out) \in 0..999
            /\ (Reopened /\ opened.err = "none") =>
                   opened.header.capture_datetime = WholeMilliseconds(dt)

====
